---- MODULE Spec2Model ----
(***************************************************************************)
(* Model of the VCD (Video Content Description) document container,        *)
(* vcd/core.py v4.3.0.                                                     *)
(*                                                                         *)
(* Python values are modelled as follows.                                  *)
(*  - a dict whose keys are fixed strings is a TLA+ record whose DOMAIN is *)
(*    the set of keys present ("k" \in DOMAIN d models `'k' in d`);        *)
(*  - a dict keyed by UIDs or by frame numbers is a function;              *)
(*  - a list or a tuple is a sequence;                                     *)
(*  - None, int, str and uuid.UUID values that reach an isinstance test    *)
(*    are tagged records [t, s, n]; a str whose characters the code        *)
(*    inspects is a sequence of one-character strings, any other text is   *)
(*    a one-token sequence;                                                *)
(*  - a raised exception ends the call: the state record keeps what was    *)
(*    written before the raise and its field err names the exception.      *)
(* Insertion order of dict keys is kept only where a lookup depends on it  *)
(* (the <type>_data bucket, scanned in insertion order by                  *)
(* get_element_data).                                                      *)
(***************************************************************************)
EXTENDS Integers, Sequences, FiniteSets, TLC

\* ------------------------------------------------------------------ bounds
MaxFrame == 1
MaxUuid == 2

\* ------------------------------------------------------- generic dict help
EmptyDict == [k \in {} |-> 0]
SetKey(d, k, v) == [x \in (DOMAIN d) \cup {k} |-> IF x = k THEN v ELSE d[x]]
DelKey(d, k) == [x \in (DOMAIN d) \ {k} |-> d[x]]
SetDefault(d, k, v) == IF k \in DOMAIN d THEN d ELSE SetKey(d, k, v)

\* ------------------------------------------------------------ Python values
None == [t |-> "None", s |-> <<>>, n |-> 0]
PyStr(s) == [t |-> "str", s |-> s, n |-> 0]
PyInt(n) == [t |-> "int", s |-> <<>>, n |-> n]
PyUUID(s) == [t |-> "UUID", s |-> s, n |-> 0]
Text(x) == PyStr(<<x>>)

Digits == <<"0", "1", "2", "3", "4", "5", "6", "7", "8", "9">>
DigitChars == {Digits[i] : i \in 1..10}
HexChars == DigitChars \cup {"a", "b", "c", "d", "e", "f", "A", "B", "C", "D", "E", "F"}

RECURSIVE str(_)
str(n) ==
    IF n < 0 THEN <<"-">> \o str(0 - n)
    ELSE IF n < 10 THEN <<Digits[n + 1]>>
    ELSE str(n \div 10) \o <<Digits[(n % 10) + 1]>>

isnumeric(s) == Len(s) > 0 /\ \A i \in 1..Len(s) : s[i] \in DigitChars

DigitVal(c) == CHOOSE d \in 0..9 : Digits[d + 1] = c

\* int(s) of a string of decimal digits; int_raises(s) is the ValueError case
RECURSIVE int(_)
int(s) ==
    IF Len(s) = 0 THEN 0
    ELSE int(SubSeq(s, 1, Len(s) - 1)) * 10 + DigitVal(s[Len(s)])
int_raises(s) == ~isnumeric(s)

\* re: ^[0-9a-fA-F]{8}-[0-9a-fA-F]{4}-[0-9a-fA-F]{4}-[0-9a-fA-F]{4}-[0-9a-fA-F]{12}$
pattern_uuid_match(s) ==
    /\ Len(s) = 36
    /\ \A i \in 1..36 : IF i \in {9, 14, 19, 24} THEN s[i] = "-" ELSE s[i] \in HexChars

\* the text of the i-th value drawn by uuid.uuid4()
UuidText(i) ==
    [k \in 1..36 |->
        IF k \in {9, 14, 19, 24} THEN "-"
        ELSE IF k = 15 THEN "4"
        ELSE IF k = 20 THEN "8"
        ELSE IF k = 36 THEN Digits[i + 1]
        ELSE "a"]

\* ------------------------------------------------------------- enumerations
ElementType == {"object", "action", "event", "context", "relation"}
Plural == [et \in ElementType |->
             CASE et = "object" -> "objects"
               [] et = "action" -> "actions"
               [] et = "event" -> "events"
               [] et = "context" -> "contexts"
               [] et = "relation" -> "relations"]
StreamType == {"camera", "lidar", "radar", "gps_imu", "other"}

\* --------------------------------------------- vcd/utils.py (interval sets)
FI(a, b) == [frame_start |-> a, frame_end |-> b]

as_frame_intervals_array_dict(tuples) ==
    [i \in 1..Len(tuples) |-> FI(tuples[i][1], tuples[i][2])]

as_frame_intervals_array_tuples(dicts) ==
    [i \in 1..Len(dicts) |-> <<dicts[i].frame_start, dicts[i].frame_end>>]

RECURSIVE InsertByStart(_, _)
InsertByStart(fi, sorted) ==
    IF sorted = <<>> THEN <<fi>>
    ELSE IF fi.frame_start < Head(sorted).frame_start THEN <<fi>> \o sorted
    ELSE <<Head(sorted)>> \o InsertByStart(fi, Tail(sorted))

RECURSIVE SortByStart(_)
SortByStart(fis) ==
    IF fis = <<>> THEN <<>>
    ELSE InsertByStart(fis[Len(fis)], SortByStart(SubSeq(fis, 1, Len(fis) - 1)))

Max2(a, b) == IF a >= b THEN a ELSE b
Min2(a, b) == IF a <= b THEN a ELSE b

RECURSIVE MergeSorted(_, _)
MergeSorted(acc, rest) ==
    IF rest = <<>> THEN acc
    ELSE IF acc = <<>> THEN MergeSorted(<<Head(rest)>>, Tail(rest))
    ELSE LET last == acc[Len(acc)]
             nxt == Head(rest)
         IN IF nxt.frame_start <= last.frame_end + 1
            THEN MergeSorted(
                     [acc EXCEPT ![Len(acc)] =
                         FI(last.frame_start, Max2(last.frame_end, nxt.frame_end))],
                     Tail(rest))
            ELSE MergeSorted(Append(acc, nxt), Tail(rest))

fuse_frame_intervals(fis_dict) == MergeSorted(<<>>, SortByStart(fis_dict))

RECURSIVE IntersectOne(_, _)
IntersectOne(a, bs) ==
    IF bs = <<>> THEN <<>>
    ELSE LET b == Head(bs)
             lo == Max2(a[1], b[1])
             hi == Min2(a[2], b[2])
         IN (IF lo <= hi THEN <<(<<lo, hi>>)>> ELSE <<>>) \o IntersectOne(a, Tail(bs))

RECURSIVE intersection_between_frame_interval_arrays(_, _)
intersection_between_frame_interval_arrays(as, bs) ==
    IF as = <<>> THEN <<>>
    ELSE IntersectOne(Head(as), bs)
            \o intersection_between_frame_interval_arrays(Tail(as), bs)

is_inside_frame_intervals(frame_num, fis_num) ==
    \E i \in 1..Len(fis_num) : fis_num[i][1] <= frame_num /\ frame_num <= fis_num[i][2]

RECURSIVE rm_frame_from_frame_intervals(_, _)
rm_frame_from_frame_intervals(fis_dict, n) ==
    IF fis_dict = <<>> THEN <<>>
    ELSE LET fi == Head(fis_dict)
             rest == rm_frame_from_frame_intervals(Tail(fis_dict), n)
         IN IF n < fi.frame_start \/ n > fi.frame_end THEN <<fi>> \o rest
            ELSE IF fi.frame_start = n /\ fi.frame_end = n THEN rest
            ELSE IF fi.frame_start = n THEN <<FI(n + 1, fi.frame_end)>> \o rest
            ELSE IF fi.frame_end = n THEN <<FI(fi.frame_start, n - 1)>> \o rest
            ELSE <<FI(fi.frame_start, n - 1), FI(n + 1, fi.frame_end)>> \o rest

\* ------------------------------------------------------ class FrameIntervals
\* a frame_value argument: [shape, v] with v the list of its (start, end) pairs
FvNone == [shape |-> "None", v |-> <<>>]
FvInt(f) == [shape |-> "int", v |-> <<(<<f, f>>)>>]
FvTuple(a, b) == [shape |-> "tuple", v |-> <<(<<a, b>>)>>]
FvListTuples(l) == [shape |-> "list_tuple", v |-> l]
FvListDicts(l) == [shape |-> "list_dict", v |-> l]
FvDict(a, b) == [shape |-> "dict", v |-> <<(<<a, b>>)>>]

FrameIntervalsEmpty == [fis_dict |-> <<>>, fis_num |-> <<>>]

\* FrameIntervals that keeps a list as it was given
FrameIntervals_unfused(frame_value) ==
    [fis_dict |-> as_frame_intervals_array_dict(frame_value.v), fis_num |-> frame_value.v]

FrameIntervals(frame_value) ==
    CASE frame_value.shape = "None" -> FrameIntervalsEmpty
      [] frame_value.shape = "int" ->
            [fis_dict |-> as_frame_intervals_array_dict(frame_value.v),
             fis_num |-> frame_value.v]
      [] frame_value.shape \in {"list_tuple", "list_dict"} ->
            IF Len(frame_value.v) = 0 THEN FrameIntervalsEmpty
            ELSE LET fused == fuse_frame_intervals(as_frame_intervals_array_dict(frame_value.v))
                 IN [fis_dict |-> fused, fis_num |-> as_frame_intervals_array_tuples(fused)]
      [] frame_value.shape = "tuple" ->
            [fis_dict |-> as_frame_intervals_array_dict(frame_value.v),
             fis_num |-> frame_value.v]
      [] frame_value.shape = "dict" ->
            [fis_dict |-> as_frame_intervals_array_dict(frame_value.v),
             fis_num |-> frame_value.v]
      [] OTHER -> FrameIntervalsEmpty

\* FrameIntervals(list of start/end records), as built from stored wire data
FrameIntervalsOfDicts(fis_dict) ==
    FrameIntervals(FvListDicts(as_frame_intervals_array_tuples(fis_dict)))

empty(fis) == Len(fis.fis_dict) = 0 \/ Len(fis.fis_num) = 0
get_dict(fis) == fis.fis_dict
get(fis) == fis.fis_num
union(self, frame_intervals) ==
    FrameIntervalsOfDicts(fuse_frame_intervals(get_dict(frame_intervals) \o self.fis_dict))
intersection(self, frame_intervals) ==
    FrameIntervals(FvListTuples(
        intersection_between_frame_interval_arrays(self.fis_num, get(frame_intervals))))
has_frame(self, frame_num) == is_inside_frame_intervals(frame_num, self.fis_num)

\* the frames of an interval list, in the order the code's nested loops visit them
RECURSIVE RangeSeq(_, _)
RangeSeq(a, b) == IF a > b THEN <<>> ELSE <<a>> \o RangeSeq(a + 1, b)

RECURSIVE FramesOf(_)
FramesOf(fis_num) ==
    IF fis_num = <<>> THEN <<>>
    ELSE RangeSeq(Head(fis_num)[1], Head(fis_num)[2]) \o FramesOf(Tail(fis_num))

\* ----------------------------------------------------- vcd/schema.py
vcd_schema_version == "4.3.0"

\* ------------------------------------------------- the state of a VCD call
\* data is self.data['vcd']; err is the exception that ended the call
\* ("none" if it returned) and ret is the value it returned
Raise(st, e) == [st EXCEPT !.err = e]
Return(st, v) == [st EXCEPT !.ret = v]

FreshLastUID == [et \in ElementType |-> 0 - 1]

reset ==
    [data |-> [frames |-> EmptyDict,
               schema_version |-> vcd_schema_version,
               frame_intervals |-> <<>>],
     lastUID |-> FreshLastUID,
     use_uuid |-> FALSE,
     nuuid |-> 0,
     err |-> "none",
     ret |-> None]

\* ------------------------------------------------------------------ getters
has(data, element_type, uid) ==
    /\ Plural[element_type] \in DOMAIN data
    /\ uid \in DOMAIN data[Plural[element_type]]

get_frame_intervals(data) ==
    IF "frame_intervals" \in DOMAIN data
    THEN FrameIntervalsOfDicts(data.frame_intervals)
    ELSE FrameIntervalsEmpty

get_element_frame_intervals(data, element_type, uid) ==
    IF ~has(data, element_type, uid) THEN FrameIntervalsEmpty
    ELSE LET element == data[Plural[element_type]][uid]
         IN IF "frame_intervals" \in DOMAIN element
            THEN FrameIntervalsOfDicts(element.frame_intervals)
            ELSE FrameIntervalsEmpty

\* the URI registered under ont_uid is truthy
get_ontology(data, ont_uid) ==
    /\ "ontologies" \in DOMAIN data
    /\ ont_uid \in DOMAIN data.ontologies
    /\ data.ontologies[ont_uid] # Text("")

get_metadata(data) == IF "metadata" \in DOMAIN data THEN data.metadata ELSE EmptyDict

\* "KeyError" when StreamType[stream] fails, else the value returned
\* ("False": an enumerator is never a key of the streams dict; "None": no
\* stream was declared)
has_stream(data, stream) ==
    IF "streams" \in DOMAIN get_metadata(data)
    THEN IF stream.t = "str" /\ Len(stream.s) = 1 /\ stream.s[1] \in StreamType
         THEN "False"
         ELSE "KeyError"
    ELSE "None"

\* ---------------------------------------------------------- private helpers
\* get_uid_to_assign with one counter shared by all element types
get_uid_to_assign_shared(st, element_type, uid) ==
    IF uid = None
    THEN IF st.use_uuid
         THEN [st EXCEPT !.nuuid = @ + 1, !.ret = PyUUID(UuidText(st.nuuid + 1))]
         ELSE [st EXCEPT !.lastUID = [et \in ElementType |-> st.lastUID[element_type] + 1],
                         !.ret = PyStr(str(st.lastUID[element_type] + 1))]
    ELSE IF uid.t = "str" /\ pattern_uuid_match(uid.s)
    THEN [st EXCEPT !.use_uuid = TRUE, !.ret = uid]
    ELSE IF uid.t = "str" /\ isnumeric(uid.s) THEN Return(st, uid)
    ELSE Return(st, PyStr(<<>>))

get_uid_to_assign(st, element_type, uid) ==
    IF uid = None
    THEN IF st.use_uuid
         THEN [st EXCEPT !.nuuid = @ + 1, !.ret = PyUUID(UuidText(st.nuuid + 1))]
         ELSE [st EXCEPT !.lastUID[element_type] = @ + 1,
                         !.ret = PyStr(str(st.lastUID[element_type] + 1))]
    ELSE IF uid.t = "int"
    THEN IF uid.n > st.lastUID[element_type]
         THEN [st EXCEPT !.lastUID[element_type] = uid.n, !.ret = PyStr(str(uid.n))]
         ELSE Return(st, PyStr(str(uid.n)))
    ELSE IF uid.t = "str"
    THEN IF isnumeric(uid.s) THEN Return(st, uid)
         ELSE IF pattern_uuid_match(uid.s)
         THEN [st EXCEPT !.use_uuid = TRUE, !.ret = uid]
         ELSE Return(st, PyStr(<<>>))
    ELSE Return(st, PyStr(<<>>))

set_vcd_frame_intervals(st, frame_intervals) ==
    IF ~empty(frame_intervals)
    THEN [st EXCEPT !.data = SetKey(@, "frame_intervals", get_dict(frame_intervals))]
    ELSE st

update_vcd_frame_intervals(st, frame_intervals) ==
    IF ~empty(frame_intervals)
    THEN LET fis_current == FrameIntervalsOfDicts(st.data.frame_intervals)
             fis_union == union(fis_current, frame_intervals)
         IN set_vcd_frame_intervals(st, fis_union)
    ELSE st

add_frame(st, frame_num) ==
    IF frame_num \in DOMAIN st.data.frames THEN st
    ELSE [st EXCEPT !.data.frames = SetKey(@, frame_num, EmptyDict)]

RECURSIVE add_frames_loop(_, _, _, _)
add_frames_loop(st, fs, element_type, uid) ==
    IF fs = <<>> THEN st
    ELSE LET f == Head(fs)
             s1 == add_frame(st, f)
             fr1 == SetDefault(s1.data.frames[f], Plural[element_type], EmptyDict)
             fr2 == [fr1 EXCEPT ![Plural[element_type]] = SetDefault(@, uid, EmptyDict)]
         IN add_frames_loop([s1 EXCEPT !.data.frames[f] = fr2], Tail(fs), element_type, uid)

add_frames(st, frame_intervals, element_type, uid) ==
    IF uid.t # "str" THEN Raise(st, "AssertionError")
    ELSE IF empty(frame_intervals) THEN st
    ELSE add_frames_loop(st, FramesOf(get(frame_intervals)), element_type, uid)

\* __rm_frame that leaves the frame entry and the interval of the document
rm_frame_kept(st, frame_num) == st

rm_frame(st, frame_num) ==
    IF frame_num \in DOMAIN st.data.frames
    THEN LET fis_dict == IF "frame_intervals" \in DOMAIN st.data
                         THEN st.data.frame_intervals ELSE <<>>
             fis_dict_new == rm_frame_from_frame_intervals(fis_dict, frame_num)
         IN [st EXCEPT !.data = SetKey([@ EXCEPT !.frames = DelKey(@, frame_num)],
                                       "frame_intervals", fis_dict_new)]
    ELSE st

\* step 3 of __create_update_element: a pointer whose interval meets the new
\* interval is cut down to the intersection, any other pointer is left as it is
ReshapePointers(edps, frame_intervals) ==
    [nm \in DOMAIN edps |->
        LET fis_int == intersection(frame_intervals,
                                    FrameIntervalsOfDicts(edps[nm].frame_intervals))
        IN IF ~empty(fis_int)
           THEN [edps[nm] EXCEPT !.frame_intervals = get_dict(fis_int)]
           ELSE edps[nm]]

SetKeyIf(cond, d, k, v) == IF cond THEN SetKey(d, k, v) ELSE d

\* step 2 that copies name and semantic type even when they are None
element_from_arguments_always(e0, data_, name, semantic_type, frame_intervals, ont_uid) ==
    SetKeyIf(ont_uid # None /\ get_ontology(data_, ont_uid),
        SetKeyIf(~empty(frame_intervals),
            SetKey(SetKey(e0, "name", name), "type", semantic_type),
            "frame_intervals", get_dict(frame_intervals)),
        "ontology_uid", ont_uid)

\* step 2 of __create_update_element: the fields copied from the arguments
element_from_arguments(e0, data_, name, semantic_type, frame_intervals, ont_uid) ==
    SetKeyIf(ont_uid # None /\ get_ontology(data_, ont_uid),
        SetKeyIf(~empty(frame_intervals),
            SetKeyIf(semantic_type # None,
                SetKeyIf(name # None, e0, "name", name),
                "type", semantic_type),
            "frame_intervals", get_dict(frame_intervals)),
        "ontology_uid", ont_uid)

\* step 3 of __create_update_element
reshape_element(e4, frame_intervals) ==
    IF ~empty(frame_intervals) /\ "data_pointers" \in DOMAIN e4
    THEN [e4 EXCEPT !.data_pointers = ReshapePointers(@, frame_intervals)]
    ELSE e4

put_element(st, d1, pl, uid, e) ==
    [st EXCEPT !.data = [d1 EXCEPT ![pl] = SetKey(@, uid, e)]]

\* has_stream(stream) raises between step 2 and step 3
create_update_element_put(st, d1, pl, uid, e4, hs, frame_intervals) ==
    IF hs = "KeyError" THEN Raise(put_element(st, d1, pl, uid, e4), "KeyError")
    ELSE put_element(st, d1, pl, uid, reshape_element(e4, frame_intervals))

create_update_element_root(st, d1, pl, name, semantic_type, frame_intervals, uid, ont_uid, stream) ==
    create_update_element_put(st, d1, pl, uid,
        element_from_arguments(IF uid \in DOMAIN d1[pl] THEN d1[pl][uid] ELSE EmptyDict,
                               st.data, name, semantic_type, frame_intervals, ont_uid),
        IF stream # None THEN has_stream(st.data, stream) ELSE "None",
        frame_intervals)

create_update_element(st, element_type, name, semantic_type, frame_intervals, uid, ont_uid, stream) ==
    create_update_element_root(st, SetDefault(st.data, Plural[element_type], EmptyDict),
                               Plural[element_type], name, semantic_type, frame_intervals,
                               uid, ont_uid, stream)

\* __update_vcd_frame_intervals, reached only if the call before it returned
then_update_vcd_frame_intervals(s0, frame_intervals) ==
    IF s0.err # "none" THEN s0 ELSE update_vcd_frame_intervals(s0, frame_intervals)

\* __add_frames followed by __update_vcd_frame_intervals
add_frames_and_update(st, frame_intervals, element_type, uid) ==
    then_update_vcd_frame_intervals(add_frames(st, frame_intervals, element_type, uid),
                                    frame_intervals)

\* __add_element, 3.1.1: frames of the new interval that the old one lacks
RECURSIVE add_new_frames(_, _, _, _, _)
add_new_frames(st, fs, fis_old, element_type, uid) ==
    IF fs = <<>> \/ st.err # "none" THEN st
    ELSE add_new_frames(IF ~has_frame(fis_old, Head(fs))
                        THEN add_frames_and_update(st, FrameIntervals(FvInt(Head(fs))),
                                                   element_type, uid)
                        ELSE st,
                        Tail(fs), fis_old, element_type, uid)

\* 3.1.2 left out: the shadows of the old interval stay
rm_old_frames_none(st, fs, fis_new, element_type, uid) == st

\* __add_element, 3.1.2: frames of the old interval that the new one lacks
RECURSIVE rm_old_frames(_, _, _, _, _)
rm_old_frames(st, fs, fis_new, element_type, uid) ==
    IF fs = <<>> \/ st.err # "none" THEN st
    ELSE LET f == Head(fs)
             pl == Plural[element_type]
             frames == st.data.frames
             s1 == IF has_frame(fis_new, f) THEN st
                   ELSE IF f \notin DOMAIN frames THEN Raise(st, "KeyError")
                   ELSE IF pl \notin DOMAIN frames[f] THEN Raise(st, "KeyError")
                   ELSE IF uid \notin DOMAIN frames[f][pl] THEN Raise(st, "KeyError")
                   ELSE LET elements_in_frame == DelKey(frames[f][pl], uid)
                        IN IF DOMAIN elements_in_frame # {}
                           THEN [st EXCEPT !.data.frames[f][pl] = elements_in_frame]
                           ELSE LET fr == DelKey(frames[f], pl)
                                    s0 == [st EXCEPT !.data.frames[f] = fr]
                                IN IF DOMAIN fr = {} THEN rm_frame(s0, f) ELSE s0
         IN rm_old_frames(s1, Tail(fs), fis_new, element_type, uid)

\* __add_element, 3.2: the test is vcd_frame_intervals.empty()
add_frames_to_all(s2, vcd_frame_intervals, element_type, uid) ==
    IF empty(vcd_frame_intervals)
    THEN add_frames(s2, vcd_frame_intervals, element_type, uid)
    ELSE s2

\* __add_element, 3: the frame entries and the interval of the document
add_element_frames(s2, element_exists, fis_old, element_type, frame_intervals, uid, uid_to_assign) ==
    IF s2.err # "none" THEN s2
    ELSE IF ~empty(frame_intervals)
    THEN IF element_exists
         THEN rm_old_frames(
                  add_new_frames(s2, FramesOf(get(frame_intervals)), fis_old,
                                 element_type, uid),
                  FramesOf(get(fis_old)), frame_intervals, element_type, uid)
         ELSE add_frames_and_update(s2, frame_intervals, element_type, uid_to_assign)
    ELSE add_frames_to_all(s2, get_frame_intervals(s2.data), element_type, uid_to_assign)

add_element_return(s3, uid_to_assign) ==
    IF s3.err # "none" THEN Return(s3, None) ELSE Return(s3, uid_to_assign)

\* __add_element, 2 and 3, s1 the state after __get_uid_to_assign
add_element_assigned(st, s1, element_type, name, semantic_type, frame_intervals, uid, ont_uid, stream) ==
    add_element_return(
        add_element_frames(
            create_update_element(s1, element_type, name, semantic_type,
                                  frame_intervals, s1.ret, ont_uid, stream),
            has(st.data, element_type, uid),
            get_element_frame_intervals(st.data, element_type, uid),
            element_type, frame_intervals, uid, s1.ret),
        s1.ret)

\* __add_element, 0 and 1, uid and ont_uid already None or str
add_element_str(st, element_type, name, semantic_type, frame_intervals, uid, ont_uid, stream) ==
    add_element_assigned(st, get_uid_to_assign(st, element_type, uid), element_type, name,
                         semantic_type, frame_intervals, uid, ont_uid, stream)

add_element(st, element_type, name, semantic_type, frame_intervals, uid_, ont_uid_, stream) ==
    IF uid_ # None /\ uid_.t \notin {"int", "str"} THEN Return(st, None)
    ELSE IF ont_uid_ # None /\ ont_uid_.t \notin {"int", "str"} THEN Return(st, None)
    ELSE add_element_str(st, element_type, name, semantic_type, frame_intervals,
                         IF uid_.t = "int" THEN PyStr(str(uid_.n)) ELSE uid_,
                         IF ont_uid_.t = "int" THEN PyStr(str(ont_uid_.n)) ELSE ont_uid_,
                         stream)

\* ------------------------------------------------------------ element data
\* a payload built by vcd/types.py: [type |-> kind, data |-> [name, val, ...]];
\* val is the sequence of the payload's numbers (one number for num)
ElementData(kind, name, val) == [type |-> kind, data |-> [name |-> name, val |-> val]]

\* The dict element[<type>_data], in insertion order of its kind keys:
\* a sequence of [kind, vals] with vals the list of payloads of that kind.
KindPos(bucket, kind) == {i \in 1..Len(bucket) : bucket[i].kind = kind}
NamePos(list_aux, name) == {i \in 1..Len(list_aux) : list_aux[i].name = name}
MinOf(S) == CHOOSE x \in S : \A y \in S : x <= y

\* put_element_data that appends without looking for a payload of that name
put_element_data_append(bucket, element_data) ==
    LET b1 == IF KindPos(bucket, element_data.type) = {}
              THEN Append(bucket, [kind |-> element_data.type, vals |-> <<>>])
              ELSE bucket
        k == MinOf(KindPos(b1, element_data.type))
    IN [b1 EXCEPT ![k].vals = Append(@, element_data.data)]

\* setdefault(kind, []), then substitute the first payload of that kind and
\* name, or append
put_element_data(bucket, element_data) ==
    LET b1 == IF KindPos(bucket, element_data.type) = {}
              THEN Append(bucket, [kind |-> element_data.type, vals |-> <<>>])
              ELSE bucket
        k == MinOf(KindPos(b1, element_data.type))
        pos_list == NamePos(b1[k].vals, element_data.data.name)
    IN IF pos_list = {}
       THEN [b1 EXCEPT ![k].vals = Append(@, element_data.data)]
       ELSE [b1 EXCEPT ![k].vals[MinOf(pos_list)] = element_data.data]

RECURSIVE put_in_frames(_, _, _, _, _)
put_in_frames(st, fs, element_type, uid, element_data) ==
    IF fs = <<>> THEN st
    ELSE LET f == Head(fs)
             pl == Plural[element_type]
             s1 == add_frame(st, f)
             fr1 == SetDefault(s1.data.frames[f], pl, EmptyDict)
             fr2 == [fr1 EXCEPT ![pl] = SetDefault(@, uid, EmptyDict)]
             e1 == SetDefault(fr2[pl][uid], "data", <<>>)
             e2 == [e1 EXCEPT !.data = put_element_data(@, element_data)]
             fr3 == [fr2 EXCEPT ![pl][uid] = e2]
         IN put_in_frames([s1 EXCEPT !.data.frames[f] = fr3], Tail(fs),
                          element_type, uid, element_data)

create_update_element_data(st, element_type, uid, element_data, frame_intervals) ==
    LET pl == Plural[element_type]
        hs == IF "in_stream" \in DOMAIN element_data.data
              THEN has_stream(st.data, element_data.data.in_stream)
              ELSE "True"
    IN IF hs = "KeyError" THEN Raise(st, "KeyError")
       ELSE IF hs # "True" THEN st
       ELSE IF empty(frame_intervals)
       THEN IF has(st.data, element_type, uid)
            THEN LET e1 == SetDefault(st.data[pl][uid], "data", <<>>)
                     e2 == [e1 EXCEPT !.data = put_element_data(@, element_data)]
                 IN [st EXCEPT !.data[pl][uid] = e2]
            ELSE st
       ELSE put_in_frames(st, FramesOf(get(frame_intervals)), element_type, uid, element_data)

\* the flattened attribute name -> attribute kind map, last write wins
RECURSIVE FlattenVals(_, _, _)
FlattenVals(m, kind, vals) ==
    IF vals = <<>> THEN m
    ELSE FlattenVals(SetKey(m, Head(vals).name, kind), kind, Tail(vals))

RECURSIVE FlattenAttributes(_, _)
FlattenAttributes(m, attributes) ==
    IF attributes = <<>> THEN m
    ELSE FlattenAttributes(FlattenVals(m, Head(attributes).kind, Head(attributes).vals),
                           Tail(attributes))

create_update_element_data_pointers(st, element_type, uid, element_data, frame_intervals) ==
    LET pl == Plural[element_type]
    IN IF ~has(st.data, element_type, uid) THEN Raise(st, "KeyError")
       ELSE LET e1 == SetDefault(st.data[pl][uid], "data_pointers", EmptyDict)
                p0 == [type |-> element_data.type,
                       frame_intervals |-> get_dict(frame_intervals)]
                p1 == IF "attributes" \in DOMAIN element_data.data
                      THEN SetKey(p0, "attributes",
                                  FlattenAttributes(EmptyDict, element_data.data.attributes))
                      ELSE p0
                e2 == [e1 EXCEPT !.data_pointers = SetKey(@, element_data.data.name, p1)]
            IN [st EXCEPT !.data[pl][uid] = e2]

\* __add_element_data after the call of __add_element: the payload, then
\* its pointer
add_element_data_store(s1, element_type, uid, element_data, frame_intervals) ==
    IF s1.err # "none" THEN s1
    ELSE create_update_element_data(s1, element_type, uid, element_data, frame_intervals)

add_element_data_point(s2, element_type, uid, element_data, frame_intervals) ==
    IF s2.err # "none" THEN s2
    ELSE create_update_element_data_pointers(s2, element_type, uid, element_data,
                                             frame_intervals)

\* __add_element_data that hands the frames to a new element
add_element_data_fresh(st, element_type, uid, element_data, frame_intervals) ==
    IF ~has(st.data, element_type, uid) THEN Return(st, None)
    ELSE Return(add_element(st, element_type, Text(element_data.data.name), None,
                            frame_intervals, None, None, None), None)

add_element_data(st, element_type, uid, element_data, frame_intervals) ==
    IF ~has(st.data, element_type, uid) THEN Return(st, None)
    ELSE
    LET element == st.data[Plural[element_type]][uid]
        ont_uid == IF "ontology_uid" \in DOMAIN element THEN element.ontology_uid ELSE None
        stream == IF "stream" \in DOMAIN element THEN element.stream ELSE None
    IN Return(
         add_element_data_point(
           add_element_data_store(
             IF ~empty(frame_intervals)
             THEN IF "name" \notin DOMAIN element \/ "type" \notin DOMAIN element
                  THEN Raise(st, "KeyError")
                  ELSE add_element(st, element_type, element.name, element.type,
                                   union(get_element_frame_intervals(st.data, element_type, uid),
                                         frame_intervals),
                                   uid, ont_uid, stream)
             ELSE st,
             element_type, uid, element_data, frame_intervals),
           element_type, uid, element_data, frame_intervals),
         None)

\* the first payload named data_name, scanning the kinds in insertion order
RECURSIVE FindInVals(_, _)
FindInVals(vals, data_name) ==
    IF vals = <<>> THEN None
    ELSE IF Head(vals).name = data_name THEN Head(vals)
    ELSE FindInVals(Tail(vals), data_name)

RECURSIVE FindInBucket(_, _)
FindInBucket(bucket, data_name) ==
    IF bucket = <<>> THEN None
    ELSE LET v == FindInVals(Head(bucket).vals, data_name)
         IN IF v # None THEN v ELSE FindInBucket(Tail(bucket), data_name)

\* frame_num is None or PyInt(f)
get_element_data(st, element_type, uid, data_name, frame_num) ==
    LET pl == Plural[element_type]
    IN IF ~has(st.data, element_type, uid) THEN Return(st, None)
       ELSE IF frame_num # None
       THEN IF frame_num.n \notin DOMAIN st.data.frames THEN Return(st, None)
            ELSE LET frame == st.data.frames[frame_num.n]
                 IN IF pl \notin DOMAIN frame THEN Raise(st, "KeyError")
                    ELSE IF uid \notin DOMAIN frame[pl] THEN Raise(st, "KeyError")
                    ELSE IF "data" \notin DOMAIN frame[pl][uid] THEN Raise(st, "KeyError")
                    ELSE Return(st, FindInBucket(frame[pl][uid].data, data_name))
       ELSE LET element == st.data[pl][uid]
            IN IF "data" \notin DOMAIN element THEN Raise(st, "KeyError")
               ELSE Return(st, FindInBucket(element.data, data_name))

\* ------------------------------------------------------------------ removal
\* the loop of rm_element with __rm_frame in the place of del: an emptied
\* frame is also cut out of the interval of the document
RECURSIVE rm_from_frames_shrinking(_, _, _, _)
rm_from_frames_shrinking(st, fs, element_type, uid) ==
    IF fs = <<>> \/ st.err # "none" THEN st
    ELSE IF Head(fs) \notin DOMAIN st.data.frames THEN Raise(st, "KeyError")
    ELSE IF Plural[element_type] \notin DOMAIN st.data.frames[Head(fs)]
    THEN Raise(st, "KeyError")
    ELSE rm_from_frames_shrinking(
             rm_old_frames(st, <<Head(fs)>>, FrameIntervalsEmpty, element_type, uid),
             Tail(fs), element_type, uid)

RECURSIVE rm_from_frames(_, _, _, _)
rm_from_frames(st, fs, element_type, uid) ==
    IF fs = <<>> \/ st.err # "none" THEN st
    ELSE LET f == Head(fs)
             pl == Plural[element_type]
             frames == st.data.frames
             s1 == IF f \notin DOMAIN frames THEN Raise(st, "KeyError")
                   ELSE IF pl \notin DOMAIN frames[f] THEN Raise(st, "KeyError")
                   ELSE LET elements_in_frame == DelKey(frames[f][pl], uid)
                        IN IF DOMAIN elements_in_frame # {}
                           THEN [st EXCEPT !.data.frames[f][pl] = elements_in_frame]
                           ELSE LET fr == DelKey(frames[f], pl)
                                IN IF DOMAIN fr = {}
                                   THEN [st EXCEPT !.data.frames = DelKey(@, f)]
                                   ELSE [st EXCEPT !.data.frames[f] = fr]
         IN rm_from_frames(s1, Tail(fs), element_type, uid)

rm_element(st, element_type, uid) ==
    LET pl == Plural[element_type]
    IN IF pl \notin DOMAIN st.data THEN Raise(st, "KeyError")
       ELSE IF ~has(st.data, element_type, uid) THEN Return(st, None)
       ELSE LET element == st.data[pl][uid]
            IN IF "frame_intervals" \notin DOMAIN element THEN Raise(st, "KeyError")
               ELSE LET s1 == rm_from_frames(
                                  st,
                                  FramesOf(as_frame_intervals_array_tuples(
                                               element.frame_intervals)),
                                  element_type, uid)
                    IN IF s1.err # "none" THEN s1
                       ELSE Return([s1 EXCEPT !.data[pl] = DelKey(@, uid)], None)

RECURSIVE rm_each(_, _, _)
rm_each(st, uids_to_remove, element_type) ==
    IF uids_to_remove = <<>> \/ st.err # "none" THEN st
    ELSE rm_each(rm_element(st, element_type, Head(uids_to_remove)),
                 Tail(uids_to_remove), element_type)

\* the UIDs whose semantic type is semantic_type
UidsOfType(data, element_type, semantic_type) ==
    {uid \in DOMAIN data[Plural[element_type]] :
        LET element == data[Plural[element_type]][uid]
        IN "type" \in DOMAIN element /\ element.type = semantic_type}

\* uids_to_remove lists UidsOfType in the insertion order of the collection
rm_element_by_type(st, element_type, semantic_type, uids_to_remove) ==
    LET pl == Plural[element_type]
    IN IF pl \notin DOMAIN st.data THEN Raise(st, "KeyError")
       ELSE IF \E uid \in DOMAIN st.data[pl] : "type" \notin DOMAIN st.data[pl][uid]
       THEN Raise(st, "KeyError")
       ELSE Return(rm_each(st, uids_to_remove, element_type), None)

\* ------------------------------------------------------ serialization, load
\* json.dumps raises TypeError on a dict key that is a uuid.UUID
Serializable(data) ==
    /\ \A et \in ElementType :
          Plural[et] \in DOMAIN data => \A uid \in DOMAIN data[Plural[et]] : uid.t = "str"
    /\ \A f \in DOMAIN data.frames : \A et \in ElementType :
          Plural[et] \in DOMAIN data.frames[f]
             => \A uid \in DOMAIN data.frames[f][Plural[et]] : uid.t = "str"

\* The JSON text of self.data, as the document it denotes: the integer keys
\* of the frame map are written as their decimal text, every other key is
\* text already.  Whitespace (pretty or compact) is not modelled.
json_dumps(data) ==
    [data EXCEPT !.frames =
        [k \in {str(f) : f \in DOMAIN data.frames} |->
            data.frames[CHOOSE f \in DOMAIN data.frames : str(f) = k]]]

stringify(st) ==
    IF Serializable(st.data) THEN Return(st, json_dumps(st.data))
    ELSE Raise(st, "TypeError")

MaxOf(S) == CHOOSE x \in S : \A y \in S : x >= y

compute_last_uid(st) ==
    LET keys(et) == IF Plural[et] \in DOMAIN st.data
                    THEN DOMAIN st.data[Plural[et]] ELSE {}
    IN IF \E et \in ElementType : \E uid \in keys(et) : int_raises(uid.s)
       THEN Raise(st, "ValueError")
       ELSE [st EXCEPT !.lastUID =
                [et \in ElementType |->
                    MaxOf({0 - 1} \cup {int(uid.s) : uid \in keys(et)})]]

\* VCD_init that only requires the version field to be present
VCD_init_any_version(st, text, validation, schema_ok) ==
    IF validation /\ "schema_version" \notin DOMAIN text THEN Raise(st, "AssertionError")
    ELSE IF validation /\ ~schema_ok THEN Raise(st, "ValidationError")
    ELSE compute_last_uid([st EXCEPT !.data = text, !.use_uuid = FALSE])

\* VCD(file_name, validation): text is the document read by json.load,
\* schema_ok the verdict of jsonschema.validate on it
VCD_init(st, text, validation, schema_ok) ==
    IF validation /\ "schema_version" \notin DOMAIN text THEN Raise(st, "AssertionError")
    ELSE IF validation /\ text.schema_version # vcd_schema_version
    THEN Raise(st, "AssertionError")
    ELSE IF validation /\ ~schema_ok THEN Raise(st, "ValidationError")
    ELSE IF "frames" \in DOMAIN text /\ DOMAIN text.frames # {}
            /\ \E k \in DOMAIN text.frames : int_raises(k)
    THEN Raise(st, "ValueError")
    ELSE LET d == IF "frames" \in DOMAIN text /\ DOMAIN text.frames # {}
                  THEN [text EXCEPT !.frames =
                           [f \in {int(k) : k \in DOMAIN text.frames} |->
                               text.frames[CHOOSE k \in DOMAIN text.frames : int(k) = f]]]
                  ELSE text
         IN compute_last_uid([st EXCEPT !.data = d, !.use_uuid = FALSE])

\* ===================================================================== state
VARIABLES data, lastUID, use_uuid, nuuid, err, ret, file, hist

vars == <<data, lastUID, use_uuid, nuuid, err, ret, file, hist>>

\* data, lastUID, use_uuid: the fields of the VCD object (data is
\* self.data['vcd']); nuuid: how many values uuid.uuid4() has drawn;
\* err, ret: the outcome of the last call; file: the saved file (<<>> if
\* none, else <<text>>); hist: the last call and the history the properties
\* refer to.
State ==
    [data |-> data, lastUID |-> lastUID, use_uuid |-> use_uuid, nuuid |-> nuuid,
     err |-> "none", ret |-> None]

Commit(st) ==
    /\ data' = st.data
    /\ lastUID' = st.lastUID
    /\ use_uuid' = st.use_uuid
    /\ nuuid' = st.nuuid
    /\ err' = st.err
    /\ ret' = st.ret

InitHist ==
    [calls |-> 0, op |-> "init", et |-> "object", uid |-> None,
     name |-> "", frame_num |-> None, fis |-> FrameIntervalsEmpty,
     semantic_type |-> None, validation |-> FALSE, edit |-> "keep",
     only_auto |-> TRUE,
     auto |-> [et \in ElementType |-> 0],
     max_int |-> [et \in ElementType |-> 0 - 1],
     uuid_seen |-> FALSE,
     static |-> EmptyDict,
     dyn |-> EmptyDict,
     arg |-> <<>>]

Init ==
    /\ data = reset.data
    /\ lastUID = reset.lastUID
    /\ use_uuid = reset.use_uuid
    /\ nuuid = 0
    /\ err = "none"
    /\ ret = None
    /\ file = <<>>
    /\ hist = InitHist

\* the record of a call: the counters and the ghost maps are carried over
Called(op, et, uid) ==
    [hist EXCEPT !.calls = @ + 1, !.op = op, !.et = et, !.uid = uid,
                 !.name = "", !.frame_num = None, !.fis = FrameIntervalsEmpty,
                 !.semantic_type = None, !.validation = FALSE, !.edit = "keep",
                 !.only_auto = FALSE, !.arg = <<>>]

IsUuidText(uid) == uid.t = "str" /\ pattern_uuid_match(uid.s)

\* ================================================================== actions
\* add_object / add_action / add_event / add_context / add_relation
Add(et, name, semantic_type, frame_value, uid, ont_uid, stream) ==
    /\ (uid = None /\ use_uuid) => nuuid < MaxUuid
    /\ Commit(add_element(State, et, name, semantic_type, FrameIntervals(frame_value),
                          uid, ont_uid, stream))
    /\ hist' = [Called("add", et, uid) EXCEPT
                   !.fis = FrameIntervals(frame_value),
                   !.arg = <<ont_uid, stream>>,
                   !.only_auto = hist.only_auto /\ uid = None,
                   !.auto[et] = IF uid = None THEN @ + 1 ELSE @,
                   !.max_int[et] = IF uid.t = "int" THEN Max2(@, uid.n) ELSE @,
                   !.uuid_seen = @ \/ IsUuidText(uid)]
    /\ UNCHANGED file

\* modify_object / modify_action / modify_event / modify_context / modify_relation
Modify(et, uid, name, semantic_type, frame_value, ont_uid, stream) ==
    /\ (uid = None /\ use_uuid) => nuuid < MaxUuid
    /\ Commit(add_element(State, et, name, semantic_type, FrameIntervals(frame_value),
                          uid, ont_uid, stream))
    /\ hist' = [Called("modify", et, uid) EXCEPT
                   !.fis = FrameIntervals(frame_value),
                   !.arg = <<name, semantic_type, ont_uid, stream>>,
                   !.max_int[et] = IF uid.t = "int" THEN Max2(@, uid.n) ELSE @,
                   !.uuid_seen = @ \/ IsUuidText(uid)]
    /\ UNCHANGED file

SetUseUuid(val) ==
    /\ Commit([State EXCEPT !.use_uuid = val])
    /\ hist' = Called("set_use_uuid", "object", None)
    /\ UNCHANGED file

\* ------------------------------------------------------ allocation of UIDs
UuidArg == PyStr(UuidText(9))
UidTypes == {"object", "action"}
UidArgs == {None, PyStr(<<"0">>), PyInt(1), UuidArg, PyStr(<<"x">>)}
UidFrameValues == {FvNone, FvInt(0)}
MaxCallsUid == 3

UidAdd ==
    /\ hist.calls < MaxCallsUid
    /\ \E et \in UidTypes, fv \in UidFrameValues, uid \in UidArgs :
          Add(et, Text("a"), Text(""), fv, uid, None, None)

UidModify ==
    /\ hist.calls < MaxCallsUid
    /\ \E et \in UidTypes, fv \in UidFrameValues, uid \in UidArgs \ {None} :
          Modify(et, uid, None, None, fv, None, None)

UidSetUseUuid ==
    /\ hist.calls < MaxCallsUid
    /\ \E val \in BOOLEAN : SetUseUuid(val)

NextUid == UidAdd \/ UidModify \/ UidSetUseUuid

Spec == Init /\ [][NextUid]_vars

C2_ExplicitIntAdvancesCounter ==
    /\ \A et \in ElementType : lastUID[et] >= hist.max_int[et]
    /\ (hist.op = "add" /\ hist.uid = None /\ err = "none"
           /\ ret.t = "str" /\ isnumeric(ret.s))
         => int(ret.s) > hist.max_int[hist.et]

\* C3: once a UUID-shaped UID has been given to add_* or modify_*, every
\* add_* without UID succeeds, returns a UUID-shaped string and stores the
\* element under it.
C3_AutoUidIsUuidTextOnceUuidSeen ==
    (hist.uuid_seen /\ hist.op = "add" /\ hist.uid = None) =>
        /\ err = "none"
        /\ ret.t = "str"
        /\ pattern_uuid_match(ret.s)
        /\ has(data, hist.et, ret)

\* ------------------------------------------------- attaching and querying
\* add_object_data / add_action_data / add_event_data / add_context_data
\* (modify_*_data are the same calls); add_event_data names the enumerator
\* ElementType.evevt, which the enumeration does not have: the evaluation of
\* the argument raises before __add_element_data is entered
AddDataAt(et, uid, element_data, fis) ==
    LET nm == element_data.data.name
        old_kinds(f) == IF <<et, uid, nm, f>> \in DOMAIN hist.dyn
                        THEN hist.dyn[<<et, uid, nm, f>>].kinds ELSE {}
        touched == {<<et, uid, nm, f>> : f \in {x \in 0..(MaxFrame + 1) : has_frame(fis, x)}}
    IN /\ Commit(IF et = "event"
                 THEN Raise(State, "AttributeError")
                 ELSE add_element_data(State, et, uid, element_data, fis))
       /\ hist' = [Called("add_data", et, uid) EXCEPT
                      !.name = nm,
                      !.fis = fis,
                      !.arg = <<element_data>>,
                      !.static = IF has(data, et, uid) /\ err' = "none" /\ empty(fis)
                                 THEN SetKey(@, <<et, uid, nm>>, element_data) ELSE @,
                      !.dyn = IF has(data, et, uid) /\ err' = "none" /\ ~empty(fis)
                              THEN [k \in (DOMAIN @) \cup touched |->
                                      IF k \in touched
                                      THEN [ed |-> element_data,
                                            kinds |-> old_kinds(k[4]) \cup {element_data.type},
                                            at |-> hist.calls + 1]
                                      ELSE @[k]]
                              ELSE @]
       /\ UNCHANGED file

AddData(et, uid, element_data, frame_value) ==
    AddDataAt(et, uid, element_data, FrameIntervals(frame_value))

\* get_object_data / get_action_data / get_event_data / get_context_data
GetData(et, uid, data_name, frame_num) ==
    /\ Commit(get_element_data(State, et, uid, data_name, frame_num))
    /\ hist' = [Called("get_data", et, uid) EXCEPT !.name = data_name, !.frame_num = frame_num]
    /\ UNCHANGED file

DataTypes == {"object"}
DataUids == {PyStr(<<"0">>)}
DataNames == {"head"}
DataPayloads ==
    {ElementData("bbox", "head", <<10, 10, 30, 30>>),
     ElementData("num", "head", <<5>>),
     ElementData("num", "head", <<9>>)}
FrameValues ==
    {FvNone} \cup {FvInt(f) : f \in 0..MaxFrame}
             \cup {FvTuple(ab[1], ab[2]) :
                     ab \in {x \in (0..MaxFrame) \X (0..MaxFrame) : x[1] < x[2]}}
MaxCallsData == 4

DataAdd ==
    /\ hist.calls < MaxCallsData
    /\ \E et \in DataTypes : Add(et, Text("a"), Text(""), FvNone, None, None, None)

DataAddData ==
    /\ hist.calls < MaxCallsData
    /\ \E et \in DataTypes, uid \in DataUids, ed \in DataPayloads, fv \in FrameValues :
          AddData(et, uid, ed, fv)

DataGetData ==
    /\ hist.calls < MaxCallsData
    /\ \E et \in DataTypes, uid \in DataUids, nm \in DataNames,
          fn \in {None} \cup {PyInt(f) : f \in 0..MaxFrame} :
          GetData(et, uid, nm, fn)

NextData == DataAdd \/ DataAddData \/ DataGetData

SpecData == Init /\ [][NextData]_vars

\* C4: after add_object_data(uid, p) without frame interval on an existing
\* object, get_object_data(uid, p.name) without frame number returns p's name
\* and value.
C4_StaticPayloadReadBack ==
    (hist.op = "get_data" /\ hist.frame_num = None
        /\ <<hist.et, hist.uid, hist.name>> \in DOMAIN hist.static)
      => /\ err = "none"
         /\ ret = hist.static[<<hist.et, hist.uid, hist.name>>].data

\* C5: a query of payload name n at frame f returns the payload last attached
\* under n to exactly that frame, whatever was attached under n to other
\* frames (the payloads attached under n to f being of one kind, as they are
\* when the attached frame sets are disjoint).
C5_FrameValueIsLastAttached ==
    (hist.op = "get_data" /\ hist.frame_num # None
        /\ <<hist.et, hist.uid, hist.name, hist.frame_num.n>> \in DOMAIN hist.dyn
        /\ Cardinality(hist.dyn[<<hist.et, hist.uid, hist.name, hist.frame_num.n>>].kinds) = 1)
      => /\ err = "none"
         /\ ret = hist.dyn[<<hist.et, hist.uid, hist.name, hist.frame_num.n>>].ed.data

\* v attached over F, w later over a disjoint G, and the query at a frame of
\* F answers v
C5_Witness ==
    /\ hist.op = "get_data" /\ hist.frame_num # None /\ err = "none"
    /\ \E k \in DOMAIN hist.dyn, g \in DOMAIN hist.dyn :
          /\ k = <<hist.et, hist.uid, hist.name, hist.frame_num.n>>
          /\ g[1] = k[1] /\ g[2] = k[2] /\ g[3] = k[3] /\ g[4] # k[4]
          /\ hist.dyn[g].at > hist.dyn[k].at
          /\ hist.dyn[g].ed # hist.dyn[k].ed
          /\ Cardinality(hist.dyn[k].kinds) = 1
          /\ ret = hist.dyn[k].ed.data

\* ------------------------------------------------------------------ removal
\* rm_object / rm_action / rm_event / rm_context / rm_relation
RmElement(et, uid) ==
    /\ Commit(rm_element(State, et, uid))
    /\ hist' = Called("rm_element", et, uid)
    /\ UNCHANGED file

MatchingUids(d, et, semantic_type) ==
    IF Plural[et] \in DOMAIN d THEN UidsOfType(d, et, semantic_type) ELSE {}

\* the orders in which a dict may list the keys S
Orders(S) ==
    {o \in [1..Cardinality(S) -> S] : \A i, j \in 1..Cardinality(S) : o[i] = o[j] => i = j}

\* rm_object_by_type / rm_action_by_type / ... ; the matching UIDs are removed
\* in the insertion order of the collection, any order here
RmByType(et, semantic_type) ==
    /\ \E uids_to_remove \in Orders(MatchingUids(data, et, semantic_type)) :
          Commit(rm_element_by_type(State, et, semantic_type, uids_to_remove))
    /\ hist' = [Called("rm_by_type", et, None) EXCEPT !.semantic_type = semantic_type]
    /\ UNCHANGED file

\* vcd.rm_object_by_frame(uid, frame_value), as tests/test_basic.py calls it:
\* class VCD defines no such attribute, the lookup raises AttributeError
RmObjectByFrame(uid, frame_value) ==
    /\ Commit(Raise(State, "AttributeError"))
    /\ hist' = [Called("rm_object_by_frame", "object", uid) EXCEPT
                   !.fis = FrameIntervals(frame_value)]
    /\ UNCHANGED file

RmTypes == {"object"}
RmUids == {PyStr(<<"0">>), PyStr(<<"1">>)}
SemanticTypes == {Text("#Car"), Text("#Pedestrian")}
MaxCallsRm == 3

RmAdd ==
    /\ hist.calls < MaxCallsRm
    /\ \E et \in RmTypes, ty \in SemanticTypes, fv \in FrameValues :
          Add(et, Text("a"), ty, fv, None, None, None)

RmRmElement ==
    /\ hist.calls < MaxCallsRm
    /\ \E et \in RmTypes, uid \in RmUids : RmElement(et, uid)

RmRmByType ==
    /\ hist.calls < MaxCallsRm
    /\ \E et \in RmTypes, ty \in SemanticTypes : RmByType(et, ty)

RmRmObjectByFrame ==
    /\ hist.calls < MaxCallsRm
    /\ \E uid \in RmUids, fv \in FrameValues \ {FvNone} : RmObjectByFrame(uid, fv)

NextRm == RmAdd \/ RmRmElement \/ RmRmByType \/ RmRmObjectByFrame

SpecRm == Init /\ [][NextRm]_vars

Shadow(d, et, uid, f) ==
    /\ f \in DOMAIN d.frames
    /\ Plural[et] \in DOMAIN d.frames[f]
    /\ uid \in DOMAIN d.frames[f][Plural[et]]

\* element (et, uid) and its shadows are the same in d1 and d2
SameElement(d1, d2, et, uid) ==
    /\ has(d1, et, uid) <=> has(d2, et, uid)
    /\ has(d1, et, uid) => d1[Plural[et]][uid] = d2[Plural[et]][uid]
    /\ \A f \in (DOMAIN d1.frames) \cup (DOMAIN d2.frames) :
          /\ Shadow(d1, et, uid, f) <=> Shadow(d2, et, uid, f)
          /\ Shadow(d1, et, uid, f)
                => d1.frames[f][Plural[et]][uid] = d2.frames[f][Plural[et]][uid]

AllUids(d, et) == IF Plural[et] \in DOMAIN d THEN DOMAIN d[Plural[et]] ELSE {}

\* C6: rm_element on an existing element, with a frame interval or none,
\* returns without error, takes exactly that element out of its collection,
\* leaves no shadow of it in any frame and changes no other element or shadow.
C6_RmElementRemovesElementAndShadows ==
    [][(hist'.op = "rm_element" /\ has(data, hist'.et, hist'.uid)) =>
          /\ err' = "none"
          /\ ~has(data', hist'.et, hist'.uid)
          /\ Cardinality(AllUids(data', hist'.et)) = Cardinality(AllUids(data, hist'.et)) - 1
          /\ \A f \in DOMAIN data'.frames : ~Shadow(data', hist'.et, hist'.uid, f)
          /\ \A et \in ElementType : \A uid \in AllUids(data, et) :
                (et # hist'.et \/ uid # hist'.uid) => SameElement(data, data', et, uid)
      ]_vars

\* C7: rm_*_by_type(t), when elements of semantic type t exist, removes
\* exactly those: none of them is left, the count drops by their number and
\* every other element is unchanged.
C7_RmByTypeRemovesExactlyTheMatching ==
    [][(hist'.op = "rm_by_type"
          /\ MatchingUids(data, hist'.et, hist'.semantic_type) # {}) =>
          LET M == MatchingUids(data, hist'.et, hist'.semantic_type)
          IN /\ err' = "none"
             /\ \A uid \in M : ~has(data', hist'.et, uid)
             /\ Cardinality(AllUids(data', hist'.et))
                   = Cardinality(AllUids(data, hist'.et)) - Cardinality(M)
             /\ \A et \in ElementType : \A uid \in AllUids(data, et) :
                   (et # hist'.et \/ uid \notin M) => SameElement(data, data', et, uid)
      ]_vars

FrameSet(fis_dict) ==
    {f \in 0..(MaxFrame + 1) :
        \E i \in 1..Len(fis_dict) : fis_dict[i].frame_start <= f /\ f <= fis_dict[i].frame_end}

ElementFrames(d, et, uid) ==
    IF has(d, et, uid) /\ "frame_intervals" \in DOMAIN d[Plural[et]][uid]
    THEN FrameSet(d[Plural[et]][uid].frame_intervals)
    ELSE {}

\* C8: rm_object_by_frame(uid, R) on an object whose interval covers R leaves
\* the object's interval equal to its previous interval minus R.
C8_RmObjectByFrameCutsInterval ==
    [][(hist'.op = "rm_object_by_frame"
          /\ has(data, "object", hist'.uid)
          /\ FrameSet(hist'.fis.fis_dict) \subseteq ElementFrames(data, "object", hist'.uid)) =>
          /\ err' = "none"
          /\ ElementFrames(data', "object", hist'.uid)
                = ElementFrames(data, "object", hist'.uid) \ FrameSet(hist'.fis.fis_dict)
      ]_vars

\* ------------------------------------------------------------ save and load
\* save(file_name): the file is written once stringify has returned
Save ==
    LET st == stringify(State)
    IN /\ Commit([st EXCEPT !.ret = None])
       /\ file' = IF st.err = "none" THEN <<st.ret>> ELSE file
       /\ hist' = Called("save", "object", None)

\* the document a file holds: as saved, or with the version field of a file
\* written by another release of the library or by another tool
FileText(edit) ==
    CASE edit = "keep" -> file[1]
      [] edit = "drop" -> DelKey(file[1], "schema_version")
      [] edit = "other" -> SetKey(file[1], "schema_version", "4.2.0")

\* VCD(file_name, validation); the loaded document replaces the current one
Load(validation, edit, schema_ok) ==
    /\ file # <<>>
    /\ Commit(VCD_init(State, FileText(edit), validation, schema_ok))
    /\ hist' = [Called("load", "object", None) EXCEPT
                   !.validation = validation, !.edit = edit]
    /\ UNCHANGED file

LoadUids == {None, UuidArg}
MaxCallsLoad == 4

LoadAdd ==
    /\ hist.calls < MaxCallsLoad
    /\ \E uid \in LoadUids, fv \in FrameValues :
          Add("object", Text("a"), Text(""), fv, uid, None, None)

LoadSave ==
    /\ hist.calls < MaxCallsLoad
    /\ Save

LoadLoad ==
    /\ hist.calls < MaxCallsLoad
    /\ \E validation \in BOOLEAN, edit \in {"keep", "drop", "other"}, schema_ok \in BOOLEAN :
          Load(validation, edit, schema_ok)

NextLoad == LoadAdd \/ LoadSave \/ LoadLoad

SpecLoad == Init /\ [][NextLoad]_vars

\* C9: every document built through the API can be saved, and loading the
\* saved file yields a document whose stringified form is the file's text.
C9_SaveLoadRoundTrip ==
    /\ hist.op = "save" => err = "none"
    /\ (hist.op = "load" /\ hist.edit = "keep" /\ ~hist.validation) =>
          /\ err = "none"
          /\ Serializable(data)
          /\ json_dumps(data) = file[1]

\* C10: a load with validation of a file whose schema_version is absent or
\* differs from vcd_schema_version raises, and the document is not accepted.
C10_VersionMismatchIsFatal ==
    [][(hist'.op = "load" /\ hist'.validation /\ hist'.edit # "keep") =>
          /\ err' = "AssertionError"
          /\ data' = data /\ lastUID' = lastUID /\ use_uuid' = use_uuid
      ]_vars

C10_Witness ==
    /\ hist.op = "load" /\ hist.validation /\ hist.edit = "other"
    /\ err = "AssertionError"
    /\ DOMAIN data.frames # {}


\* ---------------------------------------------------- fusion of intervals
MaxFuseFrame == 3
MaxFuseLen == 2
FuseIntervals == {ab \in (0..MaxFuseFrame) \X (0..MaxFuseFrame) : ab[1] <= ab[2]}
FuseInputs == UNION {[1..n -> FuseIntervals] : n \in 0..MaxFuseLen}

InitFuse ==
    /\ data = reset.data
    /\ lastUID = reset.lastUID
    /\ use_uuid = reset.use_uuid
    /\ nuuid = 0
    /\ err = "none"
    /\ ret = None
    /\ file = <<>>
    /\ hist \in {[InitHist EXCEPT !.arg = S] : S \in FuseInputs}

\* FrameIntervals(list of tuples)
FuseNew ==
    /\ hist.op = "init"
    /\ ret' = FrameIntervals(FvListTuples(hist.arg))
    /\ hist' = [hist EXCEPT !.op = "FrameIntervals", !.calls = 1]
    /\ UNCHANGED <<data, lastUID, use_uuid, nuuid, err, file>>

\* FrameIntervals(fis.get_dict()) of an object built before
FuseAgain ==
    /\ hist.op \in {"FrameIntervals", "union"}
    /\ ret' = FrameIntervals(FvListDicts(get(ret)))
    /\ hist' = [hist EXCEPT !.op = "fuse_again", !.calls = @ + 1, !.fis = ret]
    /\ UNCHANGED <<data, lastUID, use_uuid, nuuid, err, file>>

\* fis.union(FrameIntervals(tuple))
FuseUnion ==
    /\ hist.op = "FrameIntervals"
    /\ \E ab \in FuseIntervals :
          /\ ret' = union(ret, FrameIntervals(FvTuple(ab[1], ab[2])))
          /\ hist' = [hist EXCEPT !.op = "union", !.calls = @ + 1, !.fis = ret,
                                  !.arg = <<ab>>]
    /\ UNCHANGED <<data, lastUID, use_uuid, nuuid, err, file>>

\* rm_frame that sets the list of records only
FrameIntervals_rm_frame_dict_only(self, frame_num) ==
    [self EXCEPT !.fis_dict = rm_frame_from_frame_intervals(self.fis_dict, frame_num)]

\* rm_frame that deletes the whole interval holding the frame
FrameIntervals_rm_frame_interval(self, frame_num) ==
    FrameIntervals(FvListTuples(SelectSeq(self.fis_num,
        LAMBDA ab : frame_num < ab[1] \/ frame_num > ab[2])))

\* FrameIntervals.rm_frame: both views are set again
FrameIntervals_rm_frame(self, frame_num) ==
    [fis_dict |-> rm_frame_from_frame_intervals(self.fis_dict, frame_num),
     fis_num |-> as_frame_intervals_array_tuples(
                     rm_frame_from_frame_intervals(self.fis_dict, frame_num))]

\* FrameIntervals(frame_value) for the shapes other than a list of tuples;
\* the list of records is the one drawn in the initial state
FuseShape ==
    /\ hist.op = "init"
    /\ \E fv \in {FvNone, FvListDicts(hist.arg)}
                  \cup {FvInt(ab[1]) : ab \in FuseIntervals}
                  \cup {FvTuple(ab[1], ab[2]) : ab \in FuseIntervals}
                  \cup {FvDict(ab[1], ab[2]) : ab \in FuseIntervals} :
          /\ ret' = FrameIntervals(fv)
          /\ hist' = [hist EXCEPT !.op = "shape", !.calls = 1, !.name = fv.shape,
                                  !.arg = fv.v]
    /\ UNCHANGED <<data, lastUID, use_uuid, nuuid, err, file>>

\* fis.intersection(FrameIntervals(list of two tuples))
FuseIntersection ==
    /\ hist.op \in {"FrameIntervals", "shape"}
    /\ \E a \in FuseIntervals, b \in FuseIntervals :
          /\ ret' = intersection(ret, FrameIntervals(FvListTuples(<<a, b>>)))
          /\ hist' = [hist EXCEPT !.op = "intersection", !.calls = @ + 1, !.fis = ret,
                                  !.arg = <<a, b>>]
    /\ UNCHANGED <<data, lastUID, use_uuid, nuuid, err, file>>

\* fis.rm_frame(frame_num)
FuseRmFrame ==
    /\ hist.op \in {"FrameIntervals", "shape", "union", "intersection"}
    /\ \E frame_num \in 0..MaxFuseFrame :
          /\ ret' = FrameIntervals_rm_frame(ret, frame_num)
          /\ hist' = [hist EXCEPT !.op = "rm_frame", !.calls = @ + 1, !.fis = ret,
                                  !.frame_num = PyInt(frame_num)]
    /\ UNCHANGED <<data, lastUID, use_uuid, nuuid, err, file>>

NextFuse == FuseNew \/ FuseAgain \/ FuseUnion \/ FuseShape \/ FuseIntersection \/ FuseRmFrame

SpecFuse == InitFuse /\ [][NextFuse]_vars

FramesOfTuples(fis_num) ==
    {f \in 0..(MaxFuseFrame + 1) :
        \E i \in 1..Len(fis_num) : fis_num[i][1] <= f /\ f <= fis_num[i][2]}

\* sorted by start, and no two neighbours overlap or touch
Canonical(fis) ==
    /\ fis.fis_dict = as_frame_intervals_array_dict(fis.fis_num)
    /\ \A i \in 1..Len(fis.fis_num) : fis.fis_num[i][1] <= fis.fis_num[i][2]
    /\ \A i \in 1..(Len(fis.fis_num) - 1) : fis.fis_num[i][2] + 1 < fis.fis_num[i + 1][1]

\* C14: fusing yields sorted intervals that neither overlap nor touch and
\* cover exactly the frames of the input; two intervals are merged iff the
\* later one starts at most one past the end of the earlier one; fusing a
\* fused list gives the same list; a union covers the frames of both sides.
C14_FuseIdempotentAndExact ==
    /\ hist.op = "FrameIntervals" =>
          /\ Canonical(ret)
          /\ FramesOfTuples(get(ret)) = FramesOfTuples(hist.arg)
          /\ (Len(hist.arg) = 2 /\ hist.arg[1][1] <= hist.arg[2][1]) =>
                (Len(get(ret)) = 1 <=> hist.arg[2][1] <= hist.arg[1][2] + 1)
    /\ hist.op = "fuse_again" => ret = hist.fis
    /\ hist.op = "union" =>
          /\ Canonical(ret)
          /\ FramesOfTuples(get(ret)) = FramesOfTuples(get(hist.fis)) \cup FramesOfTuples(hist.arg)

C14_Witness ==
    /\ hist.op = "fuse_again"
    /\ hist.calls = 2
    /\ hist.arg = <<(<<2, 3>>), (<<0, 1>>)>>
    /\ ret.fis_num = <<(<<0, 3>>)>>


\* ------------------------------------------------------------- ontologies
\* add_ontology that registers the URI without looking for it
add_ontology_unchecked(st, ontology_name) ==
    LET d1 == SetDefault(st.data, "ontologies", EmptyDict)
        length == PyStr(str(Cardinality(DOMAIN d1.ontologies)))
    IN Return([st EXCEPT !.data = [d1 EXCEPT !.ontologies = SetKey(@, length, ontology_name)]],
              length)

add_ontology(st, ontology_name) ==
    LET d1 == SetDefault(st.data, "ontologies", EmptyDict)
        length == PyStr(str(Cardinality(DOMAIN d1.ontologies)))
    IN IF \E ont_uid \in DOMAIN d1.ontologies : d1.ontologies[ont_uid] = ontology_name
       THEN Return([st EXCEPT !.data = d1], None)
       ELSE Return([st EXCEPT !.data = [d1 EXCEPT !.ontologies =
                                           SetKey(@, length, ontology_name)]],
                   length)

AddOntology(ontology_name) ==
    /\ Commit(add_ontology(State, ontology_name))
    /\ hist' = [Called("add_ontology", "object", None) EXCEPT !.arg = ontology_name]
    /\ UNCHANGED file

\* stream_type is an enumerator, [enum |-> name], or a str
add_stream(st, stream_name, uri, description, stream_type) ==
    IF stream_name.t # "str" \/ uri.t # "str" \/ description.t # "str"
    THEN Raise(st, "AssertionError")
    ELSE Return([st EXCEPT !.data = SetKey(st.data, "metadata",
                    SetKey(get_metadata(st.data), "streams",
                        SetKey(SetDefault(get_metadata(st.data), "streams", EmptyDict).streams,
                               stream_name,
                               [description |-> description, uri |-> uri,
                                type |-> IF "enum" \in DOMAIN stream_type
                                         THEN Text(stream_type.enum) ELSE stream_type])))],
                None)

AddStream(stream_name, uri, description, stream_type) ==
    /\ Commit(add_stream(State, stream_name, uri, description, stream_type))
    /\ hist' = [Called("add_stream", "object", None) EXCEPT !.arg = stream_name]
    /\ UNCHANGED file

OntologyNames == {Text("http://a"), Text("http://b"), Text("http://c")}
StreamNames == {Text("camera"), Text("Camera1")}
OntUids == {None, PyStr(<<"0">>), PyStr(<<"1">>)}
MaxCallsOnt == 4

OntAddOntology ==
    /\ hist.calls < MaxCallsOnt
    /\ \E ontology_name \in OntologyNames : AddOntology(ontology_name)

OntAddStream ==
    /\ hist.calls < MaxCallsOnt
    /\ \E stream_name \in StreamNames :
          AddStream(stream_name, Text("./f.mp4"), Text(""), [enum |-> "camera"])

OntAdd ==
    /\ hist.calls < MaxCallsOnt
    /\ \E ont_uid \in OntUids, stream \in {None} \cup StreamNames :
          Add("object", Text("a"), Text(""), FvNone, None, ont_uid, stream)

OntModify ==
    /\ hist.calls < MaxCallsOnt
    /\ \E ont_uid \in OntUids, stream \in {None} \cup StreamNames :
          Modify("object", PyStr(<<"0">>), None, None, FvNone, ont_uid, stream)

NextOnt == OntAddOntology \/ OntAddStream \/ OntAdd \/ OntModify

SpecOnt == Init /\ [][NextOnt]_vars

Ontologies(d) == IF "ontologies" \in DOMAIN d THEN d.ontologies ELSE EmptyDict

\* C13: add_ontology of a URI not yet registered returns the decimal string
\* of the number of registered ontologies and registers the URI under it;
\* add_ontology of a registered URI returns None and leaves the ontology map
\* as it was; no two ontology UIDs ever map to the same URI.
C13_AddOntologySequentialAndUnique ==
    [][/\ hist'.op = "add_ontology" =>
            /\ err' = "none"
            /\ IF \E k \in DOMAIN Ontologies(data) : Ontologies(data)[k] = hist'.arg
               THEN /\ ret' = None
                    /\ data' = SetDefault(data, "ontologies", EmptyDict)
               ELSE /\ ret' = PyStr(str(Cardinality(DOMAIN Ontologies(data))))
                    /\ ret' \notin DOMAIN Ontologies(data)
                    /\ data' = SetKey(data, "ontologies",
                                      SetKey(Ontologies(data), ret', hist'.arg))
       /\ \A k1, k2 \in DOMAIN Ontologies(data') :
             k1 # k2 => Ontologies(data')[k1] # Ontologies(data')[k2]
      ]_vars

C13_Witness ==
    /\ hist.op = "add_ontology"
    /\ ret = None
    /\ hist.arg = Text("http://a")
    /\ DOMAIN Ontologies(data) = {PyStr(<<"0">>), PyStr(<<"1">>)}


\* -------------------------------------------------------------- relations
RDF == {"subject", "object"}

add_rdf(st, relation_uid, rdf_type, element_uid, element_type) ==
    IF "relations" \notin DOMAIN st.data THEN Raise(st, "KeyError")
    ELSE IF relation_uid \notin DOMAIN st.data.relations THEN Return(st, None)
    ELSE IF Plural[element_type] \notin DOMAIN st.data THEN Raise(st, "KeyError")
    ELSE IF element_uid \notin DOMAIN st.data[Plural[element_type]] THEN Return(st, None)
    ELSE Return([st EXCEPT !.data.relations[relation_uid] =
                    [SetDefault(@, "rdf_" \o rdf_type \o "s", <<>>)
                        EXCEPT !["rdf_" \o rdf_type \o "s"] =
                            Append(@, [uid |-> element_uid, type |-> element_type])]],
                None)

\* a call made only if the calls before it returned
then_add_rdf(s, relation_uid, rdf_type, element_uid, element_type) ==
    IF s.err # "none" THEN s
    ELSE add_rdf(s, relation_uid, rdf_type, element_uid, element_type)

then_return(s, v) == IF s.err # "none" THEN s ELSE Return(s, v)

\* the two add_rdf calls and the return of a constructor, s1 the state after
\* add_relation
add_relation_rdfs(s1, subject_type, subject_uid, object_type, object_uid) ==
    then_return(
        then_add_rdf(then_add_rdf(s1, s1.ret, "subject", subject_uid, subject_type),
                     s1.ret, "object", object_uid, object_type),
        s1.ret)

add_relation(st, name, semantic_type, frame_intervals, uid, ont_uid) ==
    add_element(st, "relation", name, semantic_type, frame_intervals, uid, ont_uid, None)

\* add_relation_subject_object; add_relation_object_action, _action_action,
\* _object_object and _action_object are this call with the two types fixed
add_relation_subject_object(st, name, semantic_type, subject_type, subject_uid, object_type, object_uid, relation_uid, ont_uid, frame_intervals) ==
    add_relation_rdfs(add_relation(st, name, semantic_type, frame_intervals,
                                   relation_uid, ont_uid),
                      subject_type, subject_uid, object_type, object_uid)

AddRdf(relation_uid, rdf_type, element_uid, element_type) ==
    /\ Commit(add_rdf(State, relation_uid, rdf_type, element_uid, element_type))
    /\ hist' = [Called("add_rdf", element_type, relation_uid) EXCEPT
                   !.arg = <<rdf_type, element_uid>>]
    /\ UNCHANGED file

AddRelationSubjectObject(subject_type, subject_uid, object_type, object_uid, relation_uid, frame_value) ==
    /\ (relation_uid = None /\ use_uuid) => nuuid < MaxUuid
    /\ Commit(add_relation_subject_object(State, Text("r"), Text(""), subject_type,
                                          subject_uid, object_type, object_uid,
                                          relation_uid, None, FrameIntervals(frame_value)))
    /\ hist' = [Called("add_relation_subject_object", "relation", relation_uid) EXCEPT
                   !.arg = <<subject_type, subject_uid, object_type, object_uid>>,
                   !.fis = FrameIntervals(frame_value),
                   !.uuid_seen = @ \/ IsUuidText(relation_uid)]
    /\ UNCHANGED file

RelTypes == {"object", "action"}
RelUids == {PyStr(<<"0">>), PyStr(<<"1">>)}
RelFrameValues == {FvNone, FvInt(0)}
MaxCallsRel == 4

RelAdd ==
    /\ hist.calls < MaxCallsRel
    /\ \E et \in RelTypes, uid \in {None, UuidArg} :
          Add(et, Text("a"), Text(""), FvNone, uid, None, None)

RelAddRelationSubjectObject ==
    /\ hist.calls < MaxCallsRel
    /\ \E subject_type \in RelTypes, object_type \in RelTypes, element_uid \in RelUids,
          relation_uid \in {None, PyInt(1)}, fv \in RelFrameValues :
          AddRelationSubjectObject(subject_type, element_uid, object_type, PyStr(<<"0">>),
                                   relation_uid, fv)

RelAddRdf ==
    /\ hist.calls < MaxCallsRel
    /\ \E relation_uid \in RelUids, rdf_type \in RDF, element_type \in RelTypes :
          AddRdf(relation_uid, rdf_type, PyStr(<<"0">>), element_type)

NextRel == RelAdd \/ RelAddRelationSubjectObject \/ RelAddRdf

SpecRel == Init /\ [][NextRel]_vars

Field(e, k) == IF k \in DOMAIN e THEN e[k] ELSE <<>>

\* C11: a relation constructor called with existing subject and object, and
\* with no relation UID or one that is not in use, creates exactly one relation, whose rdf_subjects and rdf_objects hold
\* exactly the supplied subject and object, and returns its UID.
C11_ConstructorCreatesOneRelation ==
    [][(hist'.op = "add_relation_subject_object"
          /\ has(data, hist'.arg[1], hist'.arg[2])
          /\ has(data, hist'.arg[3], hist'.arg[4])
          /\ ~has(data, "relation", IF hist'.uid.t = "int"
                                     THEN PyStr(str(hist'.uid.n)) ELSE hist'.uid)) =>
          /\ err' = "none"
          /\ ret'.t = "str"
          /\ ~has(data, "relation", ret')
          /\ AllUids(data', "relation") = AllUids(data, "relation") \cup {ret'}
          /\ has(data', "relation", ret')
          /\ Field(data'.relations[ret'], "rdf_subjects")
                = <<[uid |-> hist'.arg[2], type |-> hist'.arg[1]]>>
          /\ Field(data'.relations[ret'], "rdf_objects")
                = <<[uid |-> hist'.arg[4], type |-> hist'.arg[3]]>>
      ]_vars

\* C12: add_rdf naming a relation or an element that does not exist returns
\* without error and leaves the document as it was; a reference is appended
\* only for an existing element.
C12_AddRdfRefusedSoftly ==
    [][hist'.op = "add_rdf" =>
          /\ (~has(data, "relation", hist'.uid) \/ ~has(data, hist'.et, hist'.arg[2]))
                => (err' = "none" /\ data' = data)
          /\ data' # data => has(data, hist'.et, hist'.arg[2])
      ]_vars

\* ------------------------------------------------------------------ update
\* <<>> for None, else <<element>>
get_element(data_, element_type, uid) ==
    IF has(data_, element_type, uid) THEN <<data_[Plural[element_type]][uid]>> ELSE <<>>

\* for an existing relation
relation_has_frame_intervals(data_, relation_uid) ==
    LET relation == get_element(data_, "relation", relation_uid)[1]
    IN "frame_intervals" \in DOMAIN relation /\ Len(relation.frame_intervals) # 0

update_element(st, element_type, uid, frame_intervals) ==
    IF uid.t # "str" THEN Raise(st, "AssertionError")
    ELSE IF Plural[element_type] \notin DOMAIN st.data THEN Raise(st, "KeyError")
    ELSE IF uid \notin DOMAIN st.data[Plural[element_type]]
    THEN Return(st, [t |-> "bool", s |-> <<>>, n |-> 0])
    ELSE IF {"name", "type"} \ DOMAIN st.data[Plural[element_type]][uid] # {}
    THEN Raise(st, "KeyError")
    ELSE then_return(
             add_element(st, element_type,
                         st.data[Plural[element_type]][uid].name,
                         st.data[Plural[element_type]][uid].type,
                         union(get_element_frame_intervals(st.data, element_type, uid),
                               frame_intervals),
                         uid,
                         IF "ontology_uid" \in DOMAIN st.data[Plural[element_type]][uid]
                         THEN st.data[Plural[element_type]][uid].ontology_uid ELSE None,
                         None),
             None)

\* update_relation without the refusal of a frame-less relation
update_relation_unrefused(st, uid, frame_intervals) ==
    IF get_element(st.data, "relation", uid) # <<>>
    THEN update_element(st, "relation", uid, frame_intervals)
    ELSE Return(st, None)

update_relation(st, uid, frame_intervals) ==
    IF get_element(st.data, "relation", uid) # <<>>
    THEN IF ~relation_has_frame_intervals(st.data, uid) THEN Return(st, None)
         ELSE update_element(st, "relation", uid, frame_intervals)
    ELSE Return(st, None)

add_frame_properties_at(s1, frame_num, timestamp, properties) ==
    [s1 EXCEPT !.data.frames[frame_num] =
        SetKey(@, "frame_properties",
               LET fp0 == Field(@, "frame_properties")
                   fp1 == SetKeyIf(timestamp # None, fp0, "timestamp", timestamp)
               IN IF properties = <<>> THEN fp1
                  ELSE [k \in (DOMAIN fp1) \cup (DOMAIN properties[1]) |->
                          IF k \in DOMAIN properties[1] THEN properties[1][k] ELSE fp1[k]])]

\* properties: <<>> for None, else <<dict>>
add_frame_properties(st, frame_num, timestamp, properties) ==
    IF timestamp # None /\ timestamp.t # "str"
    THEN Raise(add_frame_properties_at(add_frame(st, frame_num), frame_num, None, <<>>),
               "AssertionError")
    ELSE Return(add_frame_properties_at(add_frame(st, frame_num), frame_num,
                                        timestamp, properties), None)

\* update_object / update_action / update_context / update_relation
Update(et, uid, frame_value) ==
    /\ Commit(IF et = "relation"
              THEN update_relation(State, uid, FrameIntervals(frame_value))
              ELSE update_element(State, et, uid, FrameIntervals(frame_value)))
    /\ hist' = [Called("update", et, uid) EXCEPT !.fis = FrameIntervals(frame_value)]
    /\ UNCHANGED file

AddFrameProperties(frame_num, timestamp, properties) ==
    /\ Commit(add_frame_properties(State, frame_num, timestamp, properties))
    /\ hist' = [Called("add_frame_properties", "object", None) EXCEPT
                   !.frame_num = PyInt(frame_num)]
    /\ UNCHANGED file

\* ---------------------------------------- elements, frames and their shadows
UpdTypes == {"object", "relation"}
UpdFrameValues == {FvNone, FvInt(0), FvInt(MaxFrame), FvTuple(0, MaxFrame)}
MaxCallsUpd == 3

UpdAdd ==
    /\ hist.calls < MaxCallsUpd
    /\ \E et \in UpdTypes, fv \in UpdFrameValues, uid \in {None, PyStr(<<"0">>)} :
          Add(et, Text("a"), Text(""), fv, uid, None, None)

UpdModify ==
    /\ hist.calls < MaxCallsUpd
    /\ \E et \in UpdTypes, fv \in UpdFrameValues :
          Modify(et, PyStr(<<"0">>), None, None, fv, None, None)

UpdUpdate ==
    /\ hist.calls < MaxCallsUpd
    /\ \E et \in UpdTypes, uid \in RmUids, fv \in UpdFrameValues : Update(et, uid, fv)

UpdAddData ==
    /\ hist.calls < MaxCallsUpd
    /\ \E fv \in UpdFrameValues :
          AddData("object", PyStr(<<"0">>), ElementData("num", "head", <<5>>), fv)

UpdRmElement ==
    /\ hist.calls < MaxCallsUpd
    /\ \E et \in UpdTypes, uid \in RmUids : RmElement(et, uid)

UpdAddFrameProperties ==
    /\ hist.calls < MaxCallsUpd
    /\ \E f \in {0, MaxFrame} :
          \/ AddFrameProperties(f, None, <<>>)
          \/ AddFrameProperties(f, Text("t"), <<SetKey(EmptyDict, "weather", Text("sunny"))>>)

NextUpd ==
    UpdAdd \/ UpdModify \/ UpdUpdate \/ UpdAddData \/ UpdRmElement \/ UpdAddFrameProperties

SpecUpd == Init /\ [][NextUpd]_vars

\* C15: in every state, each data pointer of each element covers only frames
\* of the element's own frame interval.
C15_PointersInsideElement ==
    \A et \in ElementType : \A uid \in AllUids(data, et) :
        "data_pointers" \in DOMAIN data[Plural[et]][uid] =>
            \A nm \in DOMAIN data[Plural[et]][uid].data_pointers :
                FrameSet(data[Plural[et]][uid].data_pointers[nm].frame_intervals)
                    \subseteq ElementFrames(data, et, uid)

\* C16: in every state, no frame entry is an empty record and no bucket of an
\* element type inside a frame is empty.
C16_NoEmptyFrameNorBucket ==
    \A f \in DOMAIN data.frames :
        /\ DOMAIN data.frames[f] # {}
        /\ \A et \in ElementType :
              Plural[et] \in DOMAIN data.frames[f] => DOMAIN data.frames[f][Plural[et]] # {}

\* the last element of the document was removed and its frames went with it
C16_Witness ==
    /\ hist.op = "rm_element"
    /\ err = "none"
    /\ DOMAIN data.frames = {}
    /\ FrameSet(Field(data, "frame_intervals")) = 0..MaxFrame

ShadowUids(d, et) ==
    UNION {DOMAIN d.frames[f][Plural[et]] :
             f \in {g \in DOMAIN d.frames : Plural[et] \in DOMAIN d.frames[g]}}

\* C17: in every state, frame f holds a shadow of element (type, uid) exactly
\* when the element is in its collection and its frame interval contains f.
C17_ShadowsInLockstep ==
    \A et \in ElementType : \A uid \in AllUids(data, et) \cup ShadowUids(data, et) :
        \A f \in 0..(MaxFrame + 1) :
            Shadow(data, et, uid, f) <=> f \in ElementFrames(data, et, uid)

\* C18: update_* on an existing element (a relation with a frame interval)
\* leaves its interval equal to the fused union of the old interval and the
\* supplied one, and its name, semantic type and ontology reference as they
\* were.
C18_UpdateGrowsInterval ==
    [][(hist'.op = "update" /\ has(data, hist'.et, hist'.uid)
          /\ (hist'.et = "relation" => ElementFrames(data, "relation", hist'.uid) # {})) =>
          /\ err' = "none"
          /\ has(data', hist'.et, hist'.uid)
          /\ ElementFrames(data', hist'.et, hist'.uid)
                = ElementFrames(data, hist'.et, hist'.uid) \cup FrameSet(hist'.fis.fis_dict)
          /\ Canonical([fis_dict |-> Field(data'[Plural[hist'.et]][hist'.uid], "frame_intervals"),
                        fis_num |-> as_frame_intervals_array_tuples(
                                        Field(data'[Plural[hist'.et]][hist'.uid],
                                              "frame_intervals"))])
          /\ \A k \in {"name", "type", "ontology_uid"} :
                Field(data'[Plural[hist'.et]][hist'.uid], k)
                    = Field(data[Plural[hist'.et]][hist'.uid], k)
      ]_vars

\* C19: update_* with a UID that names no element of the type returns without
\* error and leaves the document and the UID counters as they were.
C19_UpdateUnknownIsNoOp ==
    [][(hist'.op = "update" /\ ~has(data, hist'.et, hist'.uid)) =>
          /\ err' = "none"
          /\ data' = data
          /\ lastUID' = lastUID
          /\ use_uuid' = use_uuid
      ]_vars

\* C20: update_relation on a relation without frame interval is refused: the
\* relation stays without interval and without shadow, and the interval of
\* the document is unchanged.
C20_FramelessRelationNotUpdated ==
    [][(hist'.op = "update" /\ hist'.et = "relation"
          /\ has(data, "relation", hist'.uid)
          /\ ElementFrames(data, "relation", hist'.uid) = {}) =>
          /\ err' = "none"
          /\ has(data', "relation", hist'.uid)
          /\ ElementFrames(data', "relation", hist'.uid) = {}
          /\ \A f \in 0..(MaxFrame + 1) :
                Shadow(data', "relation", hist'.uid, f) <=> Shadow(data, "relation", hist'.uid, f)
          /\ Field(data', "frame_intervals") = Field(data, "frame_intervals")
      ]_vars

\* the second update of a frame-less relation in a document that has frames
C20_Witness ==
    /\ hist.op = "update"
    /\ hist.et = "relation"
    /\ hist.calls = 3
    /\ ~empty(hist.fis)
    /\ has(data, "relation", hist.uid)
    /\ ElementFrames(data, "relation", hist.uid) = {}
    /\ DOMAIN data.frames # {}

\* ------------------------------------------------ unsupported UID strings
\* C21: add_* with a string UID that is neither numeric nor UUID-shaped
\* creates no element under any key and leaves the UID counters and the UUID
\* flag as they were.
C21_UnsupportedUidRefused ==
    [][(hist'.op = "add" /\ hist'.uid.t = "str"
          /\ ~isnumeric(hist'.uid.s) /\ ~pattern_uuid_match(hist'.uid.s)) =>
          /\ AllUids(data', hist'.et) = AllUids(data, hist'.et)
          /\ PyStr(<<>>) \notin AllUids(data', hist'.et)
          /\ lastUID' = lastUID
          /\ use_uuid' = use_uuid
      ]_vars

\* ----------------------------------------------------- payloads by name
\* the element or shadow e holds a payload called data_name
Holds(e, data_name) == FindInBucket(Field(e, "data"), data_name) # None

\* the stored record get_element_data looks into: the element, or its shadow
\* in the frame (an empty record if the frame or the shadow is missing)
Looked(d, et, uid, frame_num) ==
    IF frame_num = None THEN d[Plural[et]][uid]
    ELSE IF Shadow(d, et, uid, frame_num.n) THEN d.frames[frame_num.n][Plural[et]][uid]
    ELSE EmptyDict

\* C22: get_element_data on an existing element returns None without error
\* when no payload of the name is found, statically or at a frame.
C22_AbsentPayloadIsNone ==
    [][(hist'.op = "get_data" /\ has(data, hist'.et, hist'.uid)
          /\ ~Holds(Looked(data, hist'.et, hist'.uid, hist'.frame_num), hist'.name)) =>
          /\ err' = "none"
          /\ ret' = None
          /\ data' = data
      ]_vars

\* the payloads called data_name that the element or shadow e holds
Named(e, data_name) ==
    UNION {{Field(e, "data")[i].vals[j] :
               j \in {k \in 1..Len(Field(e, "data")[i].vals) :
                        Field(e, "data")[i].vals[k].name = data_name}} :
           i \in 1..Len(Field(e, "data"))}

\* C23: add_*_data with a non-empty interval I on an existing element makes
\* the element's interval the union of the old one and I, leaves in every
\* frame of I the new payload as the only payload of its name in the shadow,
\* leaves the frames outside I as they were, and sets the pointer to I.
C23_AddDataOverInterval ==
    [][(hist'.op = "add_data" /\ has(data, hist'.et, hist'.uid) /\ ~empty(hist'.fis)) =>
          /\ err' = "none"
          /\ has(data', hist'.et, hist'.uid)
          /\ ElementFrames(data', hist'.et, hist'.uid)
                = ElementFrames(data, hist'.et, hist'.uid) \cup FrameSet(hist'.fis.fis_dict)
          /\ \A f \in FrameSet(hist'.fis.fis_dict) :
                /\ Shadow(data', hist'.et, hist'.uid, f)
                /\ Named(data'.frames[f][Plural[hist'.et]][hist'.uid], hist'.name)
                      = {hist'.arg[1].data}
          /\ \A f \in (0..(MaxFrame + 1)) \ FrameSet(hist'.fis.fis_dict) :
                /\ f \in DOMAIN data'.frames <=> f \in DOMAIN data.frames
                /\ f \in DOMAIN data.frames => data'.frames[f] = data.frames[f]
          /\ Field(Field(data'[Plural[hist'.et]][hist'.uid], "data_pointers"), hist'.name)
                .frame_intervals = hist'.fis.fis_dict
      ]_vars

\* ------------------------------------------------- update of element data
\* update_element_data with a frame value, the element having a pointer for
\* the payload's name
update_element_data_at(st, element_type, uid, element_data, element, fis_new) ==
    IF "frame_intervals" \notin DOMAIN element THEN Raise(st, "KeyError")
    ELSE IF {"name", "type"} \ DOMAIN element # {} THEN Raise(st, "KeyError")
    ELSE then_return(
             add_element_data_point(
                 add_element_data_store(
                     add_element(st, element_type, element.name, element.type,
                                 union(FrameIntervalsOfDicts(element.frame_intervals), fis_new),
                                 uid,
                                 IF "ontology_uid" \in DOMAIN element
                                 THEN element.ontology_uid ELSE None,
                                 None),
                     element_type, uid, element_data, fis_new),
                 element_type, uid, element_data, fis_new),
             None)

\* element_data is an ObjectData
update_element_data(st, element_type, uid, element_data, frame_value) ==
    IF uid.t # "str" THEN Raise(st, "AssertionError")
    ELSE IF get_element(st.data, element_type, uid) = <<>> THEN Return(st, None)
    ELSE IF frame_value = FvNone
    THEN add_element_data(st, element_type, uid, element_data, FrameIntervals(frame_value))
    ELSE IF "data_pointers" \notin DOMAIN get_element(st.data, element_type, uid)[1]
    THEN Return(st, None)
    ELSE IF element_data.data.name
              \notin DOMAIN get_element(st.data, element_type, uid)[1].data_pointers
    THEN Return(st, None)
    ELSE update_element_data_at(st, element_type, uid, element_data,
                                get_element(st.data, element_type, uid)[1],
                                FrameIntervals(frame_value))

\* update_object_data / update_action_data / update_event_data / update_context_data
UpdateData(et, uid, element_data, frame_value) ==
    /\ Commit(update_element_data(State, et, uid, element_data, frame_value))
    /\ hist' = [Called("update_data", et, uid) EXCEPT
                   !.name = element_data.data.name,
                   !.fis = FrameIntervals(frame_value),
                   !.arg = <<element_data>>]
    /\ UNCHANGED file

PtrPayloads == {ElementData("num", "head", <<5>>), ElementData("num", "head", <<9>>)}
MaxCallsPtr == 3

PtrAdd ==
    /\ hist.calls < MaxCallsPtr
    /\ \E fv \in UpdFrameValues : Add("object", Text("a"), Text("#Car"), fv, None, None, None)

PtrAddData ==
    /\ hist.calls < MaxCallsPtr
    /\ \E ed \in PtrPayloads, fv \in UpdFrameValues :
          AddData("object", PyStr(<<"0">>), ed, fv)

PtrUpdateData ==
    /\ hist.calls < MaxCallsPtr
    /\ \E ed \in PtrPayloads, fv \in UpdFrameValues :
          UpdateData("object", PyStr(<<"0">>), ed, fv)

PtrModify ==
    /\ hist.calls < MaxCallsPtr
    /\ \E name \in {None, Text("b")}, semantic_type \in {None, Text("#Bus")},
          fv \in UpdFrameValues :
          Modify("object", PyStr(<<"0">>), name, semantic_type, fv, None, None)

NextPtr == PtrAdd \/ PtrAddData \/ PtrUpdateData \/ PtrModify

SpecPtr == Init /\ [][NextPtr]_vars

\* the interval of the pointer of element (et, uid) for the payload name
PointerFrames(d, et, uid, data_name) ==
    FrameSet(Field(Field(Field(d[Plural[et]][uid], "data_pointers"), data_name),
                   "frame_intervals"))

\* C24: update_*_data with an interval F on an element that has a frame
\* interval and a pointer for the payload's name changes the payload in the frames of F only, and makes
\* the pointer's interval the union of its old interval and F and the
\* element's interval the union of its old interval and F.
C24_UpdateDataWidens ==
    [][(hist'.op = "update_data" /\ ~empty(hist'.fis) /\ has(data, hist'.et, hist'.uid)
          /\ ElementFrames(data, hist'.et, hist'.uid) # {}
          /\ hist'.name \in DOMAIN Field(data[Plural[hist'.et]][hist'.uid], "data_pointers")) =>
          /\ err' = "none"
          /\ has(data', hist'.et, hist'.uid)
          /\ \A f \in FrameSet(hist'.fis.fis_dict) :
                /\ Shadow(data', hist'.et, hist'.uid, f)
                /\ Named(data'.frames[f][Plural[hist'.et]][hist'.uid], hist'.name)
                      = {hist'.arg[1].data}
          /\ \A f \in (0..(MaxFrame + 1)) \ FrameSet(hist'.fis.fis_dict) :
                /\ f \in DOMAIN data'.frames <=> f \in DOMAIN data.frames
                /\ f \in DOMAIN data.frames => data'.frames[f] = data.frames[f]
          /\ PointerFrames(data', hist'.et, hist'.uid, hist'.name)
                = PointerFrames(data, hist'.et, hist'.uid, hist'.name)
                     \cup FrameSet(hist'.fis.fis_dict)
          /\ ElementFrames(data', hist'.et, hist'.uid)
                = ElementFrames(data, hist'.et, hist'.uid) \cup FrameSet(hist'.fis.fis_dict)
      ]_vars

\* C25: modify_* with a non-empty interval N on an existing element leaves
\* every pointer's interval equal to the intersection of N and the pointer's
\* old interval.
C25_PointersCutToIntersection ==
    [][(hist'.op = "modify" /\ has(data, hist'.et, hist'.uid) /\ ~empty(hist'.fis)) =>
          /\ err' = "none"
          /\ DOMAIN Field(data'[Plural[hist'.et]][hist'.uid], "data_pointers")
                = DOMAIN Field(data[Plural[hist'.et]][hist'.uid], "data_pointers")
          /\ \A nm \in DOMAIN Field(data[Plural[hist'.et]][hist'.uid], "data_pointers") :
                PointerFrames(data', hist'.et, hist'.uid, nm)
                    = PointerFrames(data, hist'.et, hist'.uid, nm)
                         \cap FrameSet(hist'.fis.fis_dict)
      ]_vars

\* C26: modify_* with a non-empty interval F on an existing element with
\* interval E makes the element's interval exactly F, leaves a shadow in
\* every frame of F, the new frames being in the interval of the document,
\* and no shadow in the frames of E outside F.
C26_ModifyReplacesInterval ==
    [][(hist'.op = "modify" /\ has(data, hist'.et, hist'.uid) /\ ~empty(hist'.fis)) =>
          /\ err' = "none"
          /\ Field(data'[Plural[hist'.et]][hist'.uid], "frame_intervals") = hist'.fis.fis_dict
          /\ \A f \in FrameSet(hist'.fis.fis_dict) : Shadow(data', hist'.et, hist'.uid, f)
          /\ FrameSet(hist'.fis.fis_dict) \ ElementFrames(data, hist'.et, hist'.uid)
                \subseteq FrameSet(Field(data', "frame_intervals"))
          /\ \A f \in ElementFrames(data, hist'.et, hist'.uid) \ FrameSet(hist'.fis.fis_dict) :
                ~Shadow(data', hist'.et, hist'.uid, f)
      ]_vars

\* an object that had a payload at frame 0 was moved to frame MaxFrame
C26_Witness ==
    /\ hist.op = "modify"
    /\ err = "none"
    /\ hist.fis = FrameIntervals(FvInt(MaxFrame))
    /\ ElementFrames(data, "object", hist.uid) = {MaxFrame}
    /\ Shadow(data, "object", hist.uid, MaxFrame)
    /\ ~Shadow(data, "object", hist.uid, 0)
    /\ PointerFrames(data, "object", hist.uid, "head") = {0}

C28_FramelessElementShadowedEverywhere ==
    [][(hist'.op = "add" /\ hist'.uid = None /\ empty(hist'.fis)
          /\ FrameSet(Field(data, "frame_intervals")) # {}) =>
          /\ err' = "none"
          /\ has(data', hist'.et, ret')
          /\ \A f \in FrameSet(Field(data, "frame_intervals")) :
                Shadow(data', hist'.et, ret', f)
          /\ Field(data', "frame_intervals") = Field(data, "frame_intervals")
      ]_vars

\* C29: rm_element and rm_*_by_type leave the interval of the document as it
\* was, also when frame entries are deleted.
C29_RemovalKeepsDocumentInterval ==
    [][hist'.op \in {"rm_element", "rm_by_type"} =>
          Field(data', "frame_intervals") = Field(data, "frame_intervals")]_vars

\* rm_*_by_type removed the only elements and every frame entry with them
C29_Witness ==
    /\ hist.op = "rm_by_type"
    /\ err = "none"
    /\ AllUids(data, hist.et) = {}
    /\ DOMAIN data.frames = {}
    /\ FrameSet(Field(data, "frame_intervals")) = 0..MaxFrame

\* ------------------------------------------------------- view of one frame
\* the injection without the exception for relations
injected_any(data_, element_type) ==
    IF Plural[element_type] \in DOMAIN data_
    THEN {uid \in DOMAIN data_[Plural[element_type]] :
            Field(data_[Plural[element_type]][uid], "frame_intervals") = <<>>}
    ELSE {}

\* the elements of a type that stringify_frame adds to every frame: those
\* with no 'frame_intervals' key or an empty list, relations excepted
injected(data_, element_type) ==
    IF Plural[element_type] \in DOMAIN data_ /\ element_type # "relation"
    THEN {uid \in DOMAIN data_[Plural[element_type]] :
            Field(data_[Plural[element_type]][uid], "frame_intervals") = <<>>}
    ELSE {}

\* the entries of one type in the view: each shadow updated with the fields
\* of its element, then the injected elements as copies, all without the
\* interval field
frame_bucket(data_, frame, element_type) ==
    [uid \in (DOMAIN Field(frame, Plural[element_type])) \cup injected(data_, element_type) |->
        DelKey(IF uid \in injected(data_, element_type)
               THEN data_[Plural[element_type]][uid]
               ELSE [k \in (DOMAIN frame[Plural[element_type]][uid])
                              \cup (DOMAIN data_[Plural[element_type]][uid]) |->
                       IF k \in DOMAIN data_[Plural[element_type]][uid]
                       THEN data_[Plural[element_type]][uid][k]
                       ELSE frame[Plural[element_type]][uid][k]],
               "frame_intervals")]

frame_static_dynamic(data_, frame) ==
    [k \in (DOMAIN frame)
             \cup {Plural[et] : et \in {x \in ElementType : injected(data_, x) # {}}} |->
        IF \E et \in ElementType : Plural[et] = k
        THEN frame_bucket(data_, frame, CHOOSE et \in ElementType : Plural[et] = k)
        ELSE frame[k]]

\* the value returned is the JSON text, as the record it denotes ('' for a
\* frame that does not exist)
stringify_frame(st, frame_num, dynamic_only) ==
    IF frame_num \notin DOMAIN st.data.frames THEN Return(st, Text(""))
    ELSE IF dynamic_only
    THEN IF \A et \in ElementType :
               \A uid \in DOMAIN Field(st.data.frames[frame_num], Plural[et]) : uid.t = "str"
         THEN Return(st, st.data.frames[frame_num])
         ELSE Raise(st, "TypeError")
    ELSE IF \E et \in ElementType :
               \E uid \in DOMAIN Field(st.data.frames[frame_num], Plural[et]) :
                  ~has(st.data, et, uid)
    THEN Raise(st, "KeyError")
    ELSE IF \A et \in ElementType :
               \A uid \in (DOMAIN Field(st.data.frames[frame_num], Plural[et]))
                             \cup injected(st.data, et) : uid.t = "str"
    THEN Return(st, frame_static_dynamic(st.data, st.data.frames[frame_num]))
    ELSE Raise(st, "TypeError")

StringifyFrame(frame_num, dynamic_only) ==
    /\ Commit(stringify_frame(State, frame_num, dynamic_only))
    /\ hist' = [Called("stringify_frame", "object", None) EXCEPT
                   !.frame_num = PyInt(frame_num), !.arg = <<dynamic_only>>]
    /\ UNCHANGED file

MaxCallsView == 4

ViewAdd ==
    /\ hist.calls < MaxCallsView
    /\ \E et \in UpdTypes, fv \in UpdFrameValues :
          Add(et, Text("a"), Text("#Car"), fv, None, None, None)

ViewAddData ==
    /\ hist.calls < MaxCallsView
    /\ \E fv \in UpdFrameValues :
          AddData("object", PyStr(<<"0">>), ElementData("num", "head", <<5>>), fv)

ViewStringifyFrame ==
    /\ hist.calls < MaxCallsView
    /\ \E f \in 0..MaxFrame, dynamic_only \in BOOLEAN : StringifyFrame(f, dynamic_only)

NextView == ViewAdd \/ ViewAddData \/ ViewStringifyFrame

SpecView == Init /\ [][NextView]_vars

\* C30: the merged view of an existing frame holds every object, action,
\* event and context without frame interval as a copy of its fields without
\* the interval field, every element with a shadow in the frame with the
\* fields of its element without the interval field, and no relation without
\* frame interval; the document is not changed.
C30_MergedFrameView ==
    [][(hist'.op = "stringify_frame" /\ ~hist'.arg[1]
          /\ hist'.frame_num.n \in DOMAIN data.frames) =>
          /\ err' = "none"
          /\ data' = data
          /\ \A et \in ElementType : \A uid \in AllUids(data, et) :
                /\ (et # "relation" /\ ElementFrames(data, et, uid) = {}) =>
                      /\ uid \in DOMAIN Field(ret', Plural[et])
                      /\ ret'[Plural[et]][uid] = DelKey(data[Plural[et]][uid], "frame_intervals")
                /\ Shadow(data, et, uid, hist'.frame_num.n) =>
                      /\ uid \in DOMAIN Field(ret', Plural[et])
                      /\ "frame_intervals" \notin DOMAIN ret'[Plural[et]][uid]
                      /\ \A k \in (DOMAIN data[Plural[et]][uid]) \ {"frame_intervals"} :
                            /\ k \in DOMAIN ret'[Plural[et]][uid]
                            /\ ret'[Plural[et]][uid][k] = data[Plural[et]][uid][k]
                /\ (et = "relation" /\ ElementFrames(data, et, uid) = {}) =>
                      uid \notin DOMAIN Field(ret', Plural[et])
      ]_vars

\* the view of a frame in a document that holds an object with the frame, an
\* object without interval and a relation without interval
C30_Witness ==
    /\ hist.op = "stringify_frame"
    /\ ~hist.arg[1]
    /\ err = "none"
    /\ hist.frame_num.n \in DOMAIN data.frames
    /\ DOMAIN Field(ret, "objects") = {PyStr(<<"0">>), PyStr(<<"1">>)}
    /\ \E uid \in AllUids(data, "object") :
          Shadow(data, "object", uid, hist.frame_num.n)
    /\ \E uid \in AllUids(data, "object") : ElementFrames(data, "object", uid) = {}
    /\ \E uid \in AllUids(data, "relation") : ElementFrames(data, "relation", uid) = {}

\* ------------------------------------------------- counters after a load
\* C31: after the load of a saved document, also one with UUID-shaped UIDs,
\* the load has not failed and the counter of each element type is the
\* highest numeric UID of the type, or -1 if there is none.
C31_LoadRecomputesCounters ==
    (hist.op = "load" /\ hist.edit = "keep" /\ ~hist.validation) =>
        /\ err = "none"
        /\ \A et \in ElementType :
              lastUID[et] = MaxOf({0 - 1} \cup {int(uid.s) : uid \in {u \in AllUids(data, et) :
                                                     u.t = "str" /\ isnumeric(u.s)}})

\* --------------------------------------------- references to declarations
Streams(d) == IF "streams" \in DOMAIN get_metadata(d) THEN get_metadata(d).streams ELSE EmptyDict

\* C32: an add or modify call with a stream name returns without error and
\* stores the name as the element's stream exactly when a stream of that
\* name is declared; with an ontology UID it stores the UID as the element's
\* ontology exactly when that ontology is registered.  hist'.arg ends with
\* the ontology UID and the stream of the call.
C32_ReferencesOnlyToDeclared ==
    [][(hist'.op \in {"add", "modify"} /\ hist'.et = "object") =>
          LET ont_uid == hist'.arg[Len(hist'.arg) - 1]
              stream == hist'.arg[Len(hist'.arg)]
              uid == IF hist'.uid = None THEN ret' ELSE hist'.uid
              before == IF has(data, "object", uid) THEN data.objects[uid] ELSE EmptyDict
          IN /\ err' = "none"
             /\ has(data', "object", uid)
             /\ stream # None =>
                   Field(data'.objects[uid], "stream")
                     = IF stream \in DOMAIN Streams(data) THEN stream ELSE Field(before, "stream")
             /\ ont_uid # None =>
                   Field(data'.objects[uid], "ontology_uid")
                     = IF ont_uid \in DOMAIN Ontologies(data) THEN ont_uid
                       ELSE Field(before, "ontology_uid")
      ]_vars

\* ------------------------------------------------ one static payload a name
\* C33: after add_*_data without frame interval on an existing element, the
\* element's static bucket holds exactly one payload of the attached name,
\* the one just attached, whatever the kinds of the payloads attached under
\* that name before, and the pointer of the name reports its kind.
C33_OneStaticPayloadPerName ==
    [][(hist'.op = "add_data" /\ has(data, hist'.et, hist'.uid) /\ empty(hist'.fis)) =>
          /\ err' = "none"
          /\ has(data', hist'.et, hist'.uid)
          /\ \A i \in 1..Len(Field(data'[Plural[hist'.et]][hist'.uid], "data")) :
                LET b == data'[Plural[hist'.et]][hist'.uid].data[i]
                IN IF b.kind = hist'.arg[1].type
                   THEN \E k \in NamePos(b.vals, hist'.name) :
                           /\ NamePos(b.vals, hist'.name) = {k}
                           /\ b.vals[k] = hist'.arg[1].data
                   ELSE NamePos(b.vals, hist'.name) = {}
          /\ KindPos(Field(data'[Plural[hist'.et]][hist'.uid], "data"), hist'.arg[1].type) # {}
          /\ Field(Field(data'[Plural[hist'.et]][hist'.uid], "data_pointers"), hist'.name).type
                = hist'.arg[1].type
      ]_vars

\* ------------------------------------------ interval sets after every step
\* C34: every FrameIntervals object, built from an integer, a pair, a record,
\* a list of pairs, a list of records or nothing, or left by union,
\* intersection or rm_frame, is sorted, has start <= end in each interval and
\* a gap of at least one frame between neighbours, and its list of records
\* and its list of pairs have the same length and the same bounds in the
\* same order.
C34_AlwaysCanonicalBothViews ==
    hist.calls >= 1 =>
        /\ Len(ret.fis_dict) = Len(ret.fis_num)
        /\ \A i \in 1..Len(ret.fis_num) :
              /\ ret.fis_dict[i] = FI(ret.fis_num[i][1], ret.fis_num[i][2])
              /\ ret.fis_num[i][1] <= ret.fis_num[i][2]
        /\ \A i \in 1..(Len(ret.fis_num) - 1) : ret.fis_num[i][2] + 1 < ret.fis_num[i + 1][1]

\* a frame removed from the inside of the only interval left by an
\* intersection: two intervals, in both views
C34_Witness ==
    /\ hist.op = "rm_frame"
    /\ hist.calls = 3
    /\ Len(hist.fis.fis_num) = 1
    /\ Len(ret.fis_num) = 2
    /\ Len(ret.fis_dict) = 2

\* C35: rm_frame(n) leaves exactly the frames of the set other than n; each
\* interval without n stays, an interval (n, n) goes, an interval starting
\* or ending at n loses that frame, an interval with n inside becomes
\* (start, n-1) and (n+1, end).
C35_RmFrameRemovesOneFrame ==
    hist.op = "rm_frame" =>
        LET n == hist.frame_num.n
            old == hist.fis.fis_num
            pieces(ab) == IF n < ab[1] \/ n > ab[2] THEN {ab}
                          ELSE IF ab = <<n, n>> THEN {}
                          ELSE IF ab[1] = n THEN {<<n + 1, ab[2]>>}
                          ELSE IF ab[2] = n THEN {<<ab[1], n - 1>>}
                          ELSE {<<ab[1], n - 1>>, <<n + 1, ab[2]>>}
        IN /\ FramesOfTuples(get(ret)) = FramesOfTuples(old) \ {n}
           /\ {ret.fis_num[i] : i \in 1..Len(ret.fis_num)}
                 = UNION {pieces(old[i]) : i \in 1..Len(old)}
           /\ get_dict(ret) = as_frame_intervals_array_dict(get(ret))

\* frame 1 removed from (0, 3)
C35_Witness ==
    /\ hist.op = "rm_frame"
    /\ hist.frame_num = PyInt(1)
    /\ hist.fis.fis_num = <<(<<0, 3>>)>>
    /\ ret.fis_num = <<(<<0, 0>>), (<<2, 3>>)>>

\* --------------------------------------- payloads on the four element types
KindTypes == ElementType \ {"relation"}
MaxCallsKind == 3

KindAdd ==
    /\ hist.calls < MaxCallsKind
    /\ \E et \in KindTypes : Add(et, Text("a"), Text(""), FvNone, None, None, None)

KindAddData ==
    /\ hist.calls < MaxCallsKind
    /\ \E et \in KindTypes, uid \in {PyStr(<<"0">>), PyStr(<<"5">>)}, fv \in {FvNone, FvInt(0)} :
          AddData(et, uid, ElementData("num", "head", <<5>>), fv)

NextKind == KindAdd \/ KindAddData

SpecKind == Init /\ [][NextKind]_vars

\* C36: add_<type>_data(uid, p) on an existing object, action, event or
\* context returns without error and leaves p, under its name, in the
\* element (no frame value) or in the element's shadow of each frame given;
\* on a UID that names no element of the type it returns without error and
\* leaves the document as it was.
C36_AddDataSameForFourTypes ==
    [][(hist'.op = "add_data" /\ hist'.et \in KindTypes) =>
          /\ err' = "none"
          /\ IF has(data, hist'.et, hist'.uid)
             THEN /\ has(data', hist'.et, hist'.uid)
                  /\ empty(hist'.fis) =>
                        hist'.arg[1].data \in Named(data'[Plural[hist'.et]][hist'.uid], hist'.name)
                  /\ \A f \in FrameSet(hist'.fis.fis_dict) :
                        /\ Shadow(data', hist'.et, hist'.uid, f)
                        /\ hist'.arg[1].data
                              \in Named(data'.frames[f][Plural[hist'.et]][hist'.uid], hist'.name)
             ELSE data' = data
      ]_vars

\* ------------------------------------------- payloads leave elements alone
\* C37: add_*_data on an existing element leaves the set of UIDs of every
\* element type as it was and leaves the name and the semantic type of every
\* element as they were.
C37_AddDataKeepsElements ==
    [][(hist'.op = "add_data" /\ has(data, hist'.et, hist'.uid)) =>
          \A et \in ElementType :
             /\ AllUids(data', et) = AllUids(data, et)
             /\ \A uid \in AllUids(data, et) :
                   /\ Field(data'[Plural[et]][uid], "name") = Field(data[Plural[et]][uid], "name")
                   /\ Field(data'[Plural[et]][uid], "type") = Field(data[Plural[et]][uid], "type")
      ]_vars

\* three payloads attached to the one object, the last ones frame by frame
C37_Witness ==
    /\ hist.op = "add_data"
    /\ hist.calls = 4
    /\ err = "none"
    /\ AllUids(data, "object") = {PyStr(<<"0">>)}
    /\ ElementFrames(data, "object", PyStr(<<"0">>)) = 0..MaxFrame
    /\ hist.fis = FrameIntervals(FvInt(MaxFrame))
    /\ data.objects[PyStr(<<"0">>)].name = Text("a")
    /\ data.objects[PyStr(<<"0">>)].type = Text("")

\* ------------------------------------------------ fresh UIDs do not collide
\* C38: an add_* call without UID that returns gives a UID that named no
\* element of the type before the call, and the call leaves the record of
\* every element the type had as it was.
C38_AutoUidNamesNoExistingElement ==
    [][(hist'.op = "add" /\ hist'.uid = None /\ err' = "none") =>
          /\ ~has(data, hist'.et, ret')
          /\ \A uid \in AllUids(data, hist'.et) :
                /\ has(data', hist'.et, uid)
                /\ data'[Plural[hist'.et]][uid] = data[Plural[hist'.et]][uid]
      ]_vars

\* ------------------------------------- frames inside the document interval
\* C39: every frame number that is a key of the frame map lies in an
\* interval of the document's frame-interval list.
C39_FramesInsideDocumentInterval ==
    \A f \in DOMAIN data.frames : f \in FrameSet(data.frame_intervals)

\* -------------------------------------------- pointers cover the payloads
\* C40: for every object and every frame whose shadow of the object stores a
\* payload of some name, the interval of the object's pointer of that name
\* holds the frame.
C40_PointerCoversStoredPayloads ==
    \A uid \in AllUids(data, "object") : \A f \in DOMAIN data.frames :
        Shadow(data, "object", uid, f) =>
            \A data_name \in DataNames :
                Named(data.frames[f].objects[uid], data_name) # {}
                    => f \in PointerFrames(data, "object", uid, data_name)

====
